---- MODULE Spec2Model ----
(***************************************************************************)
(* A model of ingredient_slicer's IngredientSlicer: one parse of one       *)
(* ingredient line, from the constructor to the output record.             *)
(*                                                                         *)
(* Text is modelled at the level of tokens: a string is the sequence of    *)
(* its whitespace-separated tokens, and "(" and ")" are tokens of their    *)
(* own.  A numeric string is the triple <<n, d, f>>: the number n/d in     *)
(* lowest terms, and f = 1 when the string is written with a decimal point *)
(* ("2.0", "0.5"), f = 0 when it is written as an integer ("2").  Python's *)
(* None is <<>> for a quantity and the string "None" for a unit.  Floats   *)
(* are exact rationals: the model's numbers are dyadic (halves, quarters)  *)
(* and small, where IEEE-754 arithmetic is exact.                          *)
(***************************************************************************)
EXTENDS Integers, Sequences, FiniteSets, TLC

VARIABLES
    pc,                          \* the next step of __init__/_parse/_standardize
    ingredient,                  \* self.ingredient: the raw text
    standardized_ingredient,     \* self._standardized_ingredient
    staged_ingredient,           \* self._staged_ingredient
    parenthesis_content,         \* self._parenthesis_content
    parenthesis_notes,           \* self._parenthesis_notes
    dimensions,                  \* self._dimensions
    quantity, unit, standardized_unit,
    secondary_quantity, secondary_unit, standardized_secondary_unit,
    food, prep, size_modifiers,
    densities, gram_weight,
    is_required,
    parsed_ingredient,           \* self._parsed_ingredient (to_json's record)
    warnings,                    \* warnings.warn calls so far
    idx,                         \* _address_parenthesis: index of the current substring
    hist,                        \* history of the run (not program state)
    other                        \* the fields of a second object, while this one runs

vars == <<pc, ingredient, standardized_ingredient, staged_ingredient,
          parenthesis_content, parenthesis_notes, dimensions,
          quantity, unit, standardized_unit,
          secondary_quantity, secondary_unit, standardized_secondary_unit,
          food, prep, size_modifiers, densities, gram_weight, is_required,
          parsed_ingredient, warnings, idx, hist, other>>

----------------------------------------------------------------------------
(* Bounds of the model                                                     *)

\* longest parenthesis-free text of the free-text input family
MaxLen == 4
\* longest run of numbers of the spaced-number input family
MaxNums == 3
\* most tokens inside one parenthetical of the free parenthetical family
MaxParenLen == 3
\* most parentheticals of the parenthetical-sequence input family
MaxParens == 2
\* with two objects, no further object is constructed once this many
\* warnings have been given
MaxWarnings == 2

----------------------------------------------------------------------------
(* Numbers                                                                 *)

RECURSIVE GCD(_, _)
GCD(a, b) == IF b = 0 THEN a ELSE GCD(b, a % b)

\* the rational n/d (d > 0, n >= 0) in lowest terms
Rat(n, d) == LET g == GCD(n, d) IN <<n \div g, d \div g>>

NoneQ == <<>>
None == "None"

\* float(s) of a numeric string
Float(s) == <<s[1], s[2]>>
FAdd(a, b) == Rat(a[1] * b[2] + b[1] * a[2], a[2] * b[2])
FMul(a, b) == Rat(a[1] * b[1], a[2] * b[2])
FLt(a, b) == a[1] * b[2] < b[1] * a[2]
FHalf(a) == Rat(a[1], 2 * a[2])
\* str(x) of a float: always written with a decimal point ("16.0", "2.5")
PyStr(x) == <<x[1], x[2], 1>>
\* the numeric string of an integer literal, and of a decimal literal
IntStr(n) == <<n, 1, 0>>
DecStr(n, d) == <<Rat(n, d)[1], Rat(n, d)[2], 1>>

\* _utils._make_int_or_float_str: "16.0" -> "16", "2.5" -> "2.5"
make_int_or_float_str(s) ==
    LET x == Float(s) IN IF x[2] = 1 THEN <<x[1], 1, 0>> ELSE <<x[1], x[2], 1>>

----------------------------------------------------------------------------
(* Tokens                                                                  *)

Num(s) == [k |-> "num", q |-> s, s |-> ""]
Str(w) == [k |-> "str", q |-> NoneQ, s |-> w]
\* an ASCII fraction token "n/d"
Frac(n, d) == [k |-> "frac", q |-> <<n, d, 0>>, s |-> ""]
\* a number glued to letters, "1cup"
Glued(s, w) == [k |-> "glued", q |-> s, s |-> w]
\* a token the number patterns match and float() rejects
BadNum == [k |-> "badnum", q |-> NoneQ, s |-> ""]
\* a unicode fraction glyph, and a fraction written with the unicode slash
Glyph(n, d) == [k |-> "glyph", q |-> <<n, d, 0>>, s |-> ""]
USlash(n, d) == [k |-> "uslash", q |-> <<n, d, 0>>, s |-> ""]
Emoji == [k |-> "emoji", q |-> NoneQ, s |-> ""]
\* the placeholder "" that a failed spaced-number merge leaves in the text
Empty == [k |-> "empty", q |-> NoneQ, s |-> ""]

IsNum(t) == t.k = "num"
IsStr(t) == t.k = "str"
IsWord(t, w) == t.k = "str" /\ t.s = w
IsIn(t, S) == t.k = "str" /\ t.s \in S

LP == Str("(")
RP == Str(")")

Range(f) == {f[i] : i \in DOMAIN f}

\* the indices 1..n, in order, for which Test holds
SelectIdx(n, Test(_)) == SelectSeq([i \in 1..n |-> i], Test)

RECURSIVE Flatten(_)
Flatten(ss) == IF ss = <<>> THEN <<>> ELSE Head(ss) \o Flatten(Tail(ss))

RECURSIVE AllSeqs(_, _)
\* the sequences over S of length at most n
AllSeqs(S, n) ==
    IF n = 0 THEN {<<>>}
    ELSE LET shorter == AllSeqs(S, n - 1)
         IN shorter \cup {Append(s, x) : s \in shorter, x \in S}

----------------------------------------------------------------------------
(* Vocabulary tables (_constants.py).  Each table is a slice of the        *)
(* source's: the canonical names below with the listed aliases.            *)

\* UNITS: canonical name -> aliases
UNITS ==
    ("breast" :> {"breast", "breasts"}) @@
    ("can" :> {"can", "cans"}) @@
    ("cup" :> {"cup", "cups"}) @@
    ("gram" :> {"gram", "grams", "g"}) @@
    ("ounce" :> {"ounce", "ounces", "oz"}) @@
    ("piece" :> {"piece", "pieces"}) @@
    ("teaspoon" :> {"teaspoon", "teaspoons", "tsp", "tspn.", "tspns."})

Keyed(table) == DOMAIN table \cup UNION {table[key] : key \in DOMAIN table}

UNITS_SET == Keyed(UNITS)

\* UNIT_TO_STANDARD_UNIT: a dict from every alias to its canonical name
UNIT_TO_STANDARD_UNIT_KEYS == UNION {UNITS[key] : key \in DOMAIN UNITS}
UNIT_TO_STANDARD_UNIT(val) == CHOOSE key \in DOMAIN UNITS : val \in UNITS[key]

\* BASIC_UNITS ("tspn." "tspns." is one string in the source: no comma)
BASIC_UNITS ==
    ("teaspoon" :> {"teaspoon", "teaspoons", "tsp", "tspn.tspns."}) @@
    ("cup" :> {"cup", "cups"}) @@
    ("ounce" :> {"ounce", "ounces", "oz"}) @@
    ("gram" :> {"gram", "grams", "g"})

BASIC_UNITS_SET == Keyed(BASIC_UNITS)
NON_BASIC_UNITS_SET == UNITS_SET \ BASIC_UNITS_SET

VOLUME_UNITS ==
    ("cup" :> {"cup", "cups"}) @@
    ("ounce" :> {"ounce", "ounces", "oz"}) @@
    ("teaspoon" :> {"teaspoon", "teaspoons", "tsp", "tsp."})

VOLUME_UNITS_SET == Keyed(VOLUME_UNITS)

WEIGHT_UNITS ==
    ("ounce" :> {"ounce", "ounces", "oz"}) @@
    ("gram" :> {"gram", "grams", "g"})

WEIGHT_UNITS_SET == Keyed(WEIGHT_UNITS)

DIMENSION_UNITS == ("inch" :> {"inch", "inches", "ins"})
DIMENSION_UNITS_SET == Keyed(DIMENSION_UNITS)

\* NUMBER_WORDS: word -> value
NUMBER_WORDS == ("one" :> 1) @@ ("two" :> 2) @@ ("twenty" :> 20)

\* FRACTION_WORDS: word -> the string "n/d", as the sequence of its characters
FRACTION_WORDS ==
    ("half" :> <<"1", "/", "2">>) @@
    ("quarter" :> <<"1", "/", "4">>) @@
    ("two halves" :> <<"1">>)

\* CASUAL_QUANTITIES: phrase (its words) -> value
CASUAL_QUANTITIES ==
    (<<"a">> :> 1) @@ (<<"an">> :> 1) @@
    (<<"a", "couple">> :> 2) @@ (<<"a", "few">> :> 3) @@ (<<"tad">> :> 1)

PREP_WORDS == {"chopped", "diced", "grated"}
APPROXIMATE_STRINGS == {"about", "approximately", "roughly"}
QUANTITY_PER_UNIT_STRINGS == {"each", "per", "apiece", "a piece", "per each"}
\* str.split() of each string of QUANTITY_PER_UNIT_STRINGS: its words
PerUnitWords ==
    ("each" :> <<"each">>) @@ ("per" :> <<"per">>) @@ ("apiece" :> <<"apiece">>) @@
    ("a piece" :> <<"a", "piece">>) @@ ("per each" :> <<"per", "each">>)
SOMETIMES_UNITS_SET == {"small", "medium", "large"}
UNIT_MODIFIERS == {"packed", "heaping", "lightly", "small", "medium", "large", "roughly"}
STOP_WORDS == {"a", "about", "an", "and", "approximately", "between", "can", "each",
               "few", "of", "one", "or", "oz", "per", "plus", "the", "to", "twenty",
               "two", "x"}

\* the word sets of _check_if_required_string / _check_if_required_parenthesis
optional_set == {"option", "options", "optional", "opt.", "opts.", "opt", "opts",
                 "unrequired"}
required_set == {"required", "requirement", "req.", "req"}

----------------------------------------------------------------------------
(* The Normalizer's passes (_standardize), each a function of the text.    *)
(* A pattern's finditer is a left-to-right scan for non-overlapping        *)
(* matches.                                                                *)

Rest(t, n) == SubSeq(t, n + 1, Len(t))

\* _drop_special_dashes
drop_special_dashes(t) ==
    [i \in DOMAIN t |-> IF IsIn(t[i], {"~"}) THEN Str("-") ELSE t[i]]

RECURSIVE find_and_remove_percentages(_)
\* _find_and_remove_percentages: a number with its "%" is replaced by ""
find_and_remove_percentages(t) ==
    IF t = <<>> THEN <<>>
    ELSE IF Len(t) >= 2 /\ IsNum(t[1]) /\ IsWord(t[2], "%")
         THEN find_and_remove_percentages(Rest(t, 2))
    ELSE <<t[1]>> \o find_and_remove_percentages(Rest(t, 1))

InchSymbol == "''"
InchSymbolTok == Str(InchSymbol)

RECURSIVE replace_number_followed_by_inch_symbol(_)
\* _utils._replace_number_followed_by_inch_symbol
replace_number_followed_by_inch_symbol(t) ==
    IF t = <<>> THEN <<>>
    ELSE IF Len(t) >= 2 /\ IsNum(t[1]) /\ IsWord(t[2], InchSymbol)
         THEN <<t[1], Str("inch")>> \o replace_number_followed_by_inch_symbol(Rest(t, 2))
    ELSE <<t[1]>> \o replace_number_followed_by_inch_symbol(Rest(t, 1))

Words(t) == [i \in DOMAIN t |-> IF IsStr(t[i]) THEN t[i].s ELSE ""]

RECURSIVE find_and_replace_casual_quantities(_)
\* _utils._find_and_replace_casual_quantities
find_and_replace_casual_quantities(t) ==
    IF t = <<>> THEN <<>>
    ELSE IF Len(t) >= 2 /\ IsStr(t[1]) /\ IsStr(t[2])
            /\ <<t[1].s, t[2].s>> \in DOMAIN CASUAL_QUANTITIES
         THEN <<Num(IntStr(CASUAL_QUANTITIES[<<t[1].s, t[2].s>>]))>>
              \o find_and_replace_casual_quantities(Rest(t, 2))
    ELSE IF IsStr(t[1]) /\ <<t[1].s>> \in DOMAIN CASUAL_QUANTITIES
         THEN <<Num(IntStr(CASUAL_QUANTITIES[<<t[1].s>>]))>>
              \o find_and_replace_casual_quantities(Rest(t, 1))
    ELSE <<t[1]>> \o find_and_replace_casual_quantities(Rest(t, 1))

\* the number words that prefix another ("twenty" in "twenty two")
PrefixNumberWords == {w \in DOMAIN NUMBER_WORDS : NUMBER_WORDS[w] >= 20}

RECURSIVE find_and_replace_prefixed_number_words(_)
\* _utils._find_and_replace_prefixed_number_words: "twenty two" -> "22"
find_and_replace_prefixed_number_words(t) ==
    IF t = <<>> THEN <<>>
    ELSE IF Len(t) >= 2 /\ IsIn(t[1], PrefixNumberWords)
            /\ IsIn(t[2], DOMAIN NUMBER_WORDS \ PrefixNumberWords)
         THEN <<Num(IntStr(NUMBER_WORDS[t[1].s] + NUMBER_WORDS[t[2].s]))>>
              \o find_and_replace_prefixed_number_words(Rest(t, 2))
    ELSE <<t[1]>> \o find_and_replace_prefixed_number_words(Rest(t, 1))

\* _utils._find_and_replace_number_words: "two" -> "2"
find_and_replace_number_words(t) ==
    [i \in DOMAIN t |-> IF IsIn(t[i], DOMAIN NUMBER_WORDS)
                        THEN Num(IntStr(NUMBER_WORDS[t[i].s])) ELSE t[i]]

\* the value of a one-character numeric string
DigitVal == ("1" :> 1) @@ ("2" :> 2) @@ ("4" :> 4)

\* NUMBER_WITH_FRACTION_WORD_MAP: a number, then a fraction word
FractionWordAt(t, i) ==
    i < Len(t) /\ IsNum(t[i]) /\ IsIn(t[i + 1], DOMAIN FRACTION_WORDS)

\* "fraction_value, decimal = FRACTION_WORDS[word]" unpacks the value into
\* two names: it raises ValueError unless the value has exactly two items
UnpackRaises(value) == Len(value) # 2

RECURSIVE fraction_words_replaced(_)
fraction_words_replaced(t) ==
    IF t = <<>> THEN <<>>
    ELSE IF FractionWordAt(t, 1) /\ ~UnpackRaises(FRACTION_WORDS[t[2].s])
              /\ FRACTION_WORDS[t[2].s][2] \in DOMAIN DigitVal
         THEN <<Num(PyStr(FMul(Float(t[1].q),
                               <<DigitVal[FRACTION_WORDS[t[2].s][2]], 1>>)))>>
              \o fraction_words_replaced(Rest(t, 2))
    ELSE <<t[1]>> \o fraction_words_replaced(Rest(t, 1))

\* _find_and_replace_fraction_words: the text, or the exception it raises
find_and_replace_fraction_words(t) ==
    IF \E i \in DOMAIN t :
          FractionWordAt(t, i) /\ UnpackRaises(FRACTION_WORDS[t[i + 1].s])
    THEN [raised |-> TRUE, text |-> t]
    ELSE [raised |-> FALSE, text |-> fraction_words_replaced(t)]

\* _utils._clean_html_and_unicode: a fraction glyph becomes "n/d"
clean_html_and_unicode(t) ==
    [i \in DOMAIN t |-> IF t[i].k = "glyph" THEN Frac(t[i].q[1], t[i].q[2]) ELSE t[i]]

\* _replace_unicode_fraction_slashes
replace_unicode_fraction_slashes(t) ==
    [i \in DOMAIN t |-> IF t[i].k = "uslash" THEN Frac(t[i].q[1], t[i].q[2]) ELSE t[i]]

NotEmoji(tok) == tok.k # "emoji"
\* _utils._remove_emojis
replace_emojis(t) == SelectSeq(t, NotEmoji)

\* _utils._convert_fractions_to_decimals: "1/2" -> "0.5"
convert_fractions_to_decimals(t) ==
    [i \in DOMAIN t |-> IF t[i].k = "frac"
                        THEN Num(PyStr(Rat(t[i].q[1], t[i].q[2]))) ELSE t[i]]

RECURSIVE force_ws_between_numbers_and_chars(_)
\* _utils._force_ws_between_numbers_and_chars: "1cup" -> "1 cup"
force_ws_between_numbers_and_chars(t) ==
    IF t = <<>> THEN <<>>
    ELSE IF t[1].k = "glued"
         THEN <<Num(t[1].q), Str(t[1].s)>> \o force_ws_between_numbers_and_chars(Rest(t, 1))
    ELSE <<t[1]>> \o force_ws_between_numbers_and_chars(Rest(t, 1))

RECURSIVE remove_repeat_units_in_ranges(_)
\* _utils._remove_repeat_units_in_ranges: "1 cup - 2 cups" -> "1 - 2 cups"
remove_repeat_units_in_ranges(t) ==
    IF t = <<>> THEN <<>>
    ELSE IF Len(t) >= 5 /\ IsNum(t[1]) /\ IsIn(t[2], UNIT_TO_STANDARD_UNIT_KEYS)
            /\ IsWord(t[3], "-") /\ IsNum(t[4]) /\ IsIn(t[5], UNIT_TO_STANDARD_UNIT_KEYS)
            /\ UNIT_TO_STANDARD_UNIT(t[2].s) = UNIT_TO_STANDARD_UNIT(t[5].s)
         THEN <<t[1], t[3], t[4], t[5]>> \o remove_repeat_units_in_ranges(Rest(t, 5))
    ELSE <<t[1]>> \o remove_repeat_units_in_ranges(Rest(t, 1))

RECURSIVE separate_dimensions(_)
\* _utils._separate_dimensions: the text without its dimensions, and the dimensions
separate_dimensions(t) ==
    IF t = <<>> THEN [text |-> <<>>, dims |-> <<>>]
    ELSE IF Len(t) >= 2 /\ IsNum(t[1]) /\ IsIn(t[2], DIMENSION_UNITS_SET)
         THEN LET r == separate_dimensions(Rest(t, 2))
              IN [text |-> r.text, dims |-> <<<<t[1], t[2]>>>> \o r.dims]
    ELSE LET r == separate_dimensions(Rest(t, 1))
         IN [text |-> <<t[1]>> \o r.text, dims |-> r.dims]

RECURSIVE remove_x_separators(_)
\* _remove_x_separators: an "x" after a number becomes whitespace
remove_x_separators(t) ==
    IF t = <<>> THEN <<>>
    ELSE IF Len(t) >= 2 /\ IsNum(t[1]) /\ IsIn(t[2], {"x", "X"})
         THEN <<t[1]>> \o remove_x_separators(Rest(t, 2))
    ELSE <<t[1]>> \o remove_x_separators(Rest(t, 1))

HyphenPadded == ("-to-" :> "to") @@ ("-or-" :> "or") @@ ("-and-" :> "and") @@ ("-&-" :> "&")
\* _clean_hyphen_padded_substrings: "1-to-3" -> "1 to 3"
clean_hyphen_padded_substrings(t) ==
    [i \in DOMAIN t |-> IF IsIn(t[i], DOMAIN HyphenPadded)
                        THEN Str(HyphenPadded[t[i].s]) ELSE t[i]]

IsNumLike(tok) == tok.k \in {"num", "badnum"}
One == <<1, 1>>

\* a merge whose comparison is not strict: a second number of 1 is added
merge_spaced_numbers_not_strict(first, second) ==
    IF ~IsNum(first) \/ ~IsNum(second) THEN Empty
    ELSE Num(make_int_or_float_str(
             IF ~FLt(One, Float(second.q))
             THEN PyStr(FAdd(Float(first.q), Float(second.q)))
             ELSE PyStr(FMul(Float(first.q), Float(second.q)))))

\* _merge_spaced_numbers on the pair (first, second) that SPLIT_SPACED_NUMS
\* finds: the sum when the second is below 1, else the product; float() of a
\* malformed number raises, and the except clause gives the placeholder ""
merge_spaced_numbers(first, second) ==
    IF ~IsNum(first) \/ ~IsNum(second) THEN Empty
    ELSE Num(make_int_or_float_str(
             IF FLt(Float(second.q), One)
             THEN PyStr(FAdd(Float(first.q), Float(second.q)))
             ELSE PyStr(FMul(Float(first.q), Float(second.q)))))

\* the warnings of _merge_spaced_numbers and _which_merge_on_spaced_numbers
\* (the second evaluates float(second) only)
merge_warnings(first, second) ==
    (IF ~IsNum(first) \/ ~IsNum(second) THEN 1 ELSE 0)
    + (IF ~IsNum(second) THEN 1 ELSE 0)

RECURSIVE merge_multi_nums(_)
\* _merge_multi_nums: every SPACE_SEP_NUMBERS match (two numbers separated
\* by whitespace) is replaced by its merge
merge_multi_nums(t) ==
    IF t = <<>> THEN [text |-> <<>>, warned |-> 0]
    ELSE IF Len(t) >= 2 /\ IsNumLike(t[1]) /\ IsNumLike(t[2])
         THEN LET r == merge_multi_nums(Rest(t, 2))
              IN [text |-> <<merge_spaced_numbers(t[1], t[2])>> \o r.text,
                  warned |-> merge_warnings(t[1], t[2]) + r.warned]
    ELSE LET r == merge_multi_nums(Rest(t, 1))
         IN [text |-> <<t[1]>> \o r.text, warned |-> r.warned]

RangeOf(a, b) == <<a, Str("-"), b>>

RECURSIVE update_ranges_dash(_)
\* _utils._update_ranges with QUANTITY_DASH_QUANTITY: "1--2" -> "1 - 2"
update_ranges_dash(t) ==
    IF t = <<>> THEN <<>>
    ELSE IF Len(t) >= 4 /\ IsNum(t[1]) /\ IsWord(t[2], "-") /\ IsWord(t[3], "-")
            /\ IsNum(t[4])
         THEN RangeOf(t[1], t[4]) \o update_ranges_dash(Rest(t, 4))
    ELSE IF Len(t) >= 3 /\ IsNum(t[1]) /\ IsWord(t[2], "-") /\ IsNum(t[3])
         THEN RangeOf(t[1], t[3]) \o update_ranges_dash(Rest(t, 3))
    ELSE <<t[1]>> \o update_ranges_dash(Rest(t, 1))

RECURSIVE update_ranges_between(_)
\* _utils._update_ranges with BETWEEN_QUANTITY_AND_QUANTITY
update_ranges_between(t) ==
    IF t = <<>> THEN <<>>
    ELSE IF Len(t) >= 4 /\ IsWord(t[1], "between") /\ IsNum(t[2])
            /\ IsIn(t[3], {"and", "&"}) /\ IsNum(t[4])
         THEN RangeOf(t[2], t[4]) \o update_ranges_between(Rest(t, 4))
    ELSE <<t[1]>> \o update_ranges_between(Rest(t, 1))

RECURSIVE update_ranges_word(_, _)
\* _utils._update_ranges with QUANTITY_TO_QUANTITY / QUANTITY_OR_QUANTITY
update_ranges_word(t, w) ==
    IF t = <<>> THEN <<>>
    ELSE IF Len(t) >= 3 /\ IsNum(t[1]) /\ IsWord(t[2], w) /\ IsNum(t[3])
         THEN RangeOf(t[1], t[3]) \o update_ranges_word(Rest(t, 3), w)
    ELSE <<t[1]>> \o update_ranges_word(Rest(t, 1), w)

RECURSIVE merge_misleading_ranges(_)
\* _utils._merge_misleading_ranges: "2 - 2" -> "2"
merge_misleading_ranges(t) ==
    IF t = <<>> THEN <<>>
    ELSE IF Len(t) >= 3 /\ IsNum(t[1]) /\ IsWord(t[2], "-") /\ IsNum(t[3])
         THEN (IF t[1] = t[3] THEN <<t[1]>> ELSE SubSeq(t, 1, 3))
              \o merge_misleading_ranges(Rest(t, 3))
    ELSE <<t[1]>> \o merge_misleading_ranges(Rest(t, 1))

\* a range fixer that knows the hyphen form only
fix_ranges_hyphen_only(t) == merge_misleading_ranges(update_ranges_dash(t))

\* _fix_ranges
fix_ranges(t) ==
    merge_misleading_ranges(
        update_ranges_word(
            update_ranges_word(update_ranges_between(update_ranges_dash(t)), "to"),
            "or"))

RECURSIVE find_and_replace_numbers_separated_by_add_numbers(_)
\* _find_and_replace_numbers_separated_by_add_numbers: "1 and 0.5" -> "1.5"
find_and_replace_numbers_separated_by_add_numbers(t) ==
    IF t = <<>> THEN <<>>
    ELSE IF Len(t) >= 3 /\ IsNum(t[1]) /\ IsIn(t[2], {"and", "&", "plus", "+"})
            /\ IsNum(t[3])
         THEN <<Num(make_int_or_float_str(PyStr(FAdd(Float(t[1].q), Float(t[3].q)))))>>
              \o find_and_replace_numbers_separated_by_add_numbers(Rest(t, 3))
    ELSE <<t[1]>> \o find_and_replace_numbers_separated_by_add_numbers(Rest(t, 1))

\* _utils._replace_a_or_an_quantities: "a"/"an" becomes "1" when the text
\* holds no number
replace_a_or_an_quantities(t) ==
    IF \E i \in DOMAIN t : IsNum(t[i]) THEN t
    ELSE [i \in DOMAIN t |-> IF IsIn(t[i], {"a", "an"}) THEN Num(IntStr(1)) ELSE t[i]]

RECURSIVE avg_ranges(_)
\* _utils.avg_ranges: "1 - 2" -> "1.5"
avg_ranges(t) ==
    IF t = <<>> THEN <<>>
    ELSE IF Len(t) >= 3 /\ IsNum(t[1]) /\ IsWord(t[2], "-") /\ IsNum(t[3])
         THEN <<Num(make_int_or_float_str(
                    PyStr(FHalf(FAdd(Float(t[1].q), Float(t[3].q))))))>>
              \o avg_ranges(Rest(t, 3))
    ELSE <<t[1]>> \o avg_ranges(Rest(t, 1))

\* the index of the first ")" of t, or 0
FirstRP(t) ==
    IF \E i \in DOMAIN t : t[i] = RP
    THEN CHOOSE i \in DOMAIN t : t[i] = RP /\ \A j \in 1..(i - 1) : t[j] # RP
    ELSE 0

RECURSIVE split_by_parenthesis(_)
\* _utils._split_by_parenthesis: the text without its parentheticals, and the
\* parentheticals (with their brackets) in order of appearance
split_by_parenthesis(t) ==
    IF t = <<>> THEN [text |-> <<>>, parens |-> <<>>]
    ELSE IF t[1] = LP /\ FirstRP(t) > 0
         THEN LET r == split_by_parenthesis(Rest(t, FirstRP(t)))
              IN [text |-> r.text, parens |-> <<SubSeq(t, 1, FirstRP(t))>> \o r.parens]
    ELSE LET r == split_by_parenthesis(Rest(t, 1))
         IN [text |-> <<t[1]>> \o r.text, parens |-> r.parens]

NotEmpty(tok) == tok.k # "empty"
\* _utils._remove_extra_whitespaces: runs of whitespace become one space, so
\* an empty placeholder leaves no token
remove_extra_whitespaces(t) == SelectSeq(t, NotEmpty)

----------------------------------------------------------------------------
(* Required / optional flag                                                *)

HasWordIn(t, S) == \E i \in DOMAIN t : IsIn(t[i], S)

\* _check_if_required_string
check_if_required_string(t) ==
    LET optional_flag == HasWordIn(t, optional_set)
        required_flag == HasWordIn(t, required_set)
    IN required_flag \/ ~optional_flag

\* a check that applies the rule to each parenthetical on its own
check_if_required_parenthesis_each(parenthesis_list) ==
    \A j \in DOMAIN parenthesis_list :
        HasWordIn(parenthesis_list[j], required_set)
        \/ ~HasWordIn(parenthesis_list[j], optional_set)

\* _check_if_required_parenthesis: each flag is any() over the whole list
check_if_required_parenthesis(parenthesis_list) ==
    LET optional_flag == \E j \in DOMAIN parenthesis_list :
                             HasWordIn(parenthesis_list[j], optional_set)
        required_flag == \E j \in DOMAIN parenthesis_list :
                             HasWordIn(parenthesis_list[j], required_set)
    IN required_flag \/ ~optional_flag

\* _is_ingredient_required
is_ingredient_required(t, parenthesis_list) ==
    check_if_required_string(t) /\ check_if_required_parenthesis(parenthesis_list)

----------------------------------------------------------------------------
(* Quantity-Unit Extractor                                                 *)

\* QUANTITY_BASIC_UNIT_GROUPS / QUANTITY_NON_BASIC_UNIT_GROUPS .findall: the
\* positions of a number followed by a unit of the set, in order
QuantityUnitMatches(t, units) ==
    LET Test(i) == i < Len(t) /\ IsNum(t[i]) /\ IsIn(t[i + 1], units)
    IN SelectIdx(Len(t), Test)

\* ALL_NUMBERS.findall and UNITS_PATTERN.findall
AllNumbers(t) == LET Test(i) == IsNum(t[i]) IN SelectIdx(Len(t), Test)
AllUnits(t) == LET Test(i) == IsIn(t[i], UNITS_SET) IN SelectIdx(Len(t), Test)

\* an extractor with a single tier: the first number followed by any unit
extract_first_quantity_unit_untiered(t, q0, u0) ==
    LET unit_matches == QuantityUnitMatches(t, UNITS_SET)
    IN IF unit_matches # <<>>
       THEN <<t[unit_matches[1]].q, t[unit_matches[1] + 1].s>>
       ELSE <<IF AllNumbers(t) # <<>> THEN t[AllNumbers(t)[1]].q ELSE NoneQ,
              IF AllUnits(t) # <<>> THEN t[AllUnits(t)[1]].s ELSE None>>

\* extract_first_quantity_unit: the (quantity, unit) it leaves in the object,
\* given the pair (q0, u0) it finds there
extract_first_quantity_unit(t, q0, u0) ==
    LET basic_unit_matches == QuantityUnitMatches(t, BASIC_UNITS_SET)
        nonbasic_unit_matches == QuantityUnitMatches(t, NON_BASIC_UNITS_SET)
        valid_quantities == AllNumbers(t)
        valid_units == AllUnits(t)
    IN IF basic_unit_matches # <<>>
       THEN <<t[basic_unit_matches[1]].q, t[basic_unit_matches[1] + 1].s>>
       ELSE IF nonbasic_unit_matches # <<>>
       THEN <<t[nonbasic_unit_matches[1]].q, t[nonbasic_unit_matches[1] + 1].s>>
       ELSE IF valid_quantities # <<>> \/ valid_units # <<>>
       THEN <<IF valid_quantities # <<>> THEN t[valid_quantities[1]].q ELSE NoneQ,
              IF valid_units # <<>> THEN t[valid_units[1]].s ELSE None>>
       ELSE <<q0, u0>>

----------------------------------------------------------------------------
(* Parenthesis Resolver                                                    *)

\* the tokens between the brackets of a parenthetical
Inner(p) == SelectSeq(p, LAMBDA tok : tok # LP /\ tok # RP)

\* _utils._extract_quantities_only: the numbers of a parenthetical that holds
\* nothing but numbers and approximation words
extract_quantities_only(p) ==
    LET in == Inner(p)
    IN IF \A i \in DOMAIN in : IsNum(in[i]) \/ IsIn(in[i], APPROXIMATE_STRINGS)
       THEN [i \in 1..Len(AllNumbers(in)) |-> in[AllNumbers(in)[i]].q]
       ELSE <<>>

\* _utils._is_approximate_quantity_only_parenthesis
is_approximate_quantity_only_parenthesis(p) == HasWordIn(Inner(p), APPROXIMATE_STRINGS)

\* _utils._extract_equivalent_quantity_units: the (word, number, unit) triples
\* "<equivalence word> <number> <unit>" of a parenthetical
extract_equivalent_quantity_units(p) ==
    LET in == Inner(p)
        Test(i) == i + 2 <= Len(in) /\ IsIn(in[i], APPROXIMATE_STRINGS)
                   /\ IsNum(in[i + 1]) /\ IsIn(in[i + 2], UNITS_SET)
        at == SelectIdx(Len(in), Test)
    IN [j \in 1..Len(at) |-> <<in[at[j]].s, in[at[j] + 1].q, in[at[j] + 2].s>>]

\* a pair matcher that does not look for equivalence words
extract_quantity_unit_pairs_anywhere(p) ==
    LET in == Inner(p)
        at == QuantityUnitMatches(in, UNITS_SET)
    IN [j \in 1..Len(at) |-> <<in[at[j]].q, in[at[j] + 1].s>>]

\* _utils._extract_quantity_unit_pairs: the (number, unit) pairs of a
\* parenthetical that holds no equivalence word
extract_quantity_unit_pairs(p) ==
    LET in == Inner(p)
        at == QuantityUnitMatches(in, UNITS_SET)
    IN IF HasWordIn(in, APPROXIMATE_STRINGS) THEN <<>>
       ELSE [j \in 1..Len(at) |-> <<in[at[j]].q, in[at[j] + 1].s>>]

\* Python truth of a quantity, and of a unit (None and "" are false)
TruthyQ(x) == x # NoneQ
TruthyU(x) == x # None /\ x # ""

\* float(a) * float(b), as Python prints it, through _make_int_or_float_str
Multiplied(a, b) == make_int_or_float_str(PyStr(FMul(Float(a), Float(b))))

Result(q, u, sq, su, note) == [q |-> q, u |-> u, sq |-> sq, su |-> su, note |-> note]

\* a quantity-only handler that takes the first number of any parenthetical
address_quantity_only_parenthesis_any_number(st, p) ==
    LET numbers == AllNumbers(Inner(p))
    IN IF numbers = <<>>
       THEN Result(st.q, st.u, st.sq, st.su, "not a quantity only parenthesis")
       ELSE Result(Inner(p)[numbers[1]].q, st.u, st.q, st.su,
                   "used quantity from parenthesis with quantity only")

\* a quantity-only handler that adds where the code multiplies
address_quantity_only_parenthesis_adding(st, p) ==
    LET numbers_only == extract_quantities_only(p)
        sum == make_int_or_float_str(PyStr(FAdd(Float(st.q), Float(numbers_only[1]))))
    IN IF numbers_only = <<>>
       THEN Result(st.q, st.u, st.sq, st.su, "not a quantity only parenthesis")
       ELSE IF is_approximate_quantity_only_parenthesis(p)
       THEN Result(st.q, st.u, st.sq, st.su, "approximate quantity only")
       ELSE IF ~TruthyQ(st.q)
       THEN Result(numbers_only[1], st.u, st.sq, st.su, "used quantity from parenthesis")
       ELSE Result(sum, st.u, st.q, st.su,
                   "added starting quantity to parenthesis quantity")

\* a quantity-only handler that keeps the old quantity only when a unit is set
address_quantity_only_parenthesis_unit_rows(st, p) ==
    LET numbers_only == extract_quantities_only(p)
    IN IF numbers_only = <<>>
       THEN Result(st.q, st.u, st.sq, st.su, "not a quantity only parenthesis")
       ELSE IF is_approximate_quantity_only_parenthesis(p)
       THEN Result(st.q, st.u, st.sq, st.su, "approximate quantity only")
       ELSE IF ~TruthyQ(st.q)
       THEN Result(numbers_only[1], st.u, st.sq, st.su, "used quantity from parenthesis")
       ELSE Result(Multiplied(st.q, numbers_only[1]), st.u,
                   IF TruthyU(st.u) THEN st.q ELSE st.sq, st.su,
                   "multiplied starting quantity with parenthesis quantity")

\* _address_quantity_only_parenthesis on the state st = [q, u, sq, su]
address_quantity_only_parenthesis(st, p) ==
    LET numbers_only == extract_quantities_only(p)
        parenthesis_quantity == numbers_only[1]
    IN IF numbers_only = <<>>
       THEN Result(st.q, st.u, st.sq, st.su, "not a quantity only parenthesis")
       ELSE IF is_approximate_quantity_only_parenthesis(p)
       THEN Result(st.q, st.u, st.sq, st.su, "approximate quantity only")
       ELSE IF ~TruthyQ(st.q) /\ ~TruthyU(st.u)
       THEN Result(parenthesis_quantity, st.u, st.sq, st.su,
                   "maybe unit is: the 'food' or a 'sometimes unit'")
       ELSE IF TruthyQ(st.q) /\ ~TruthyU(st.u)
       THEN Result(Multiplied(st.q, parenthesis_quantity), st.u, st.q, st.su,
                   "maybe unit is: the 'food' or a 'sometimes unit'")
       ELSE IF ~TruthyQ(st.q) /\ TruthyU(st.u)
       THEN Result(parenthesis_quantity, st.u, st.q, st.su,
                   "used quantity from parenthesis")
       ELSE IF TruthyQ(st.q) /\ TruthyU(st.u)
       THEN Result(Multiplied(st.q, parenthesis_quantity), st.u, st.q, st.su,
                   "multiplied starting quantity with parenthesis quantity")
       ELSE Result(parenthesis_quantity, st.u, st.q, st.su,
                   "used quantity from parenthesis with quantity only")

\* an equivalence handler that does not look for per-unit phrases
address_equivalence_parenthesis_per_unit_blind(st, p) ==
    LET equivalent_quantity_unit == extract_equivalent_quantity_units(p)
    IN IF equivalent_quantity_unit = <<>>
       THEN Result(st.q, st.u, st.sq, st.su, "not a equivalence quantity unit parenthesis")
       ELSE Result(equivalent_quantity_unit[1][2], equivalent_quantity_unit[1][3],
                   st.q, st.u,
                   "used quantity/units from parenthesis with equivalent quantity/units")

\* an equivalence handler that adopts the pair and displaces nothing
address_equivalence_parenthesis_not_displacing(st, p) ==
    LET equivalent_quantity_unit == extract_equivalent_quantity_units(p)
    IN IF equivalent_quantity_unit = <<>>
          \/ HasWordIn(Inner(p), QUANTITY_PER_UNIT_STRINGS)
       THEN Result(st.q, st.u, st.sq, st.su, "not a equivalence quantity unit parenthesis")
       ELSE Result(equivalent_quantity_unit[1][2], equivalent_quantity_unit[1][3],
                   st.sq, st.su,
                   "used equivalence quantity unit as our quantity and unit")

\* an equivalence handler that displaces a lone unit without adopting the pair
address_equivalence_parenthesis_displacing_only(st, p) ==
    LET equivalent_quantity_unit == extract_equivalent_quantity_units(p)
    IN IF equivalent_quantity_unit = <<>>
          \/ HasWordIn(Inner(p), QUANTITY_PER_UNIT_STRINGS)
       THEN Result(st.q, st.u, st.sq, st.su, "not a equivalence quantity unit parenthesis")
       ELSE IF ~TruthyQ(st.q) /\ TruthyU(st.u)
       THEN Result(st.q, None, st.sq, st.u, "maybe unit is")
       ELSE Result(equivalent_quantity_unit[1][2], equivalent_quantity_unit[1][3],
                   st.q, st.u,
                   "used quantity/units from parenthesis with equivalent quantity/units")

\* _address_equivalence_parenthesis
address_equivalence_parenthesis(st, p) ==
    LET equivalent_quantity_unit == extract_equivalent_quantity_units(p)
        split_parenthesis == Inner(p)
        parenthesis_quantity == equivalent_quantity_unit[1][2]
        parenthesis_unit == equivalent_quantity_unit[1][3]
        parenthesis_unit_is_basic == parenthesis_unit \in BASIC_UNITS_SET
        unit_is_basic == st.u \in BASIC_UNITS_SET
    IN IF equivalent_quantity_unit = <<>>
          \/ HasWordIn(split_parenthesis, QUANTITY_PER_UNIT_STRINGS)
       THEN Result(st.q, st.u, st.sq, st.su, "not a equivalence quantity unit parenthesis")
       ELSE IF ~TruthyQ(st.q) /\ ~TruthyU(st.u)
       THEN Result(parenthesis_quantity, parenthesis_unit, st.sq, st.su,
                   "used equivalence quantity unit as our quantity and unit")
       ELSE IF TruthyQ(st.q) /\ ~TruthyU(st.u)
       THEN Result(parenthesis_quantity, parenthesis_unit, st.q, st.su,
                   "maybe quantity is")
       ELSE IF ~TruthyQ(st.q) /\ TruthyU(st.u)
       THEN Result(parenthesis_quantity, parenthesis_unit, st.sq, st.u,
                   "maybe unit is")
       ELSE IF TruthyQ(st.q) /\ TruthyU(st.u) /\ parenthesis_unit_is_basic /\ unit_is_basic
       THEN Result(st.q, st.u, parenthesis_quantity, parenthesis_unit,
                   "maybe quantity/unit is: parenthesis")
       ELSE IF TruthyQ(st.q) /\ TruthyU(st.u) /\ ~parenthesis_unit_is_basic /\ ~unit_is_basic
       THEN Result(st.q, st.u, parenthesis_quantity, parenthesis_unit,
                   "maybe quantity/unit is: parenthesis")
       ELSE IF TruthyQ(st.q) /\ TruthyU(st.u) /\ parenthesis_unit_is_basic
       THEN Result(parenthesis_quantity, parenthesis_unit, st.q, st.u,
                   "maybe quantity/unit is: original")
       ELSE IF TruthyQ(st.q) /\ TruthyU(st.u) /\ unit_is_basic
       THEN Result(st.q, st.u, parenthesis_quantity, parenthesis_unit,
                   "maybe quantity/unit is: parenthesis")
       ELSE Result(parenthesis_quantity, parenthesis_unit, st.q, st.u,
                   "used quantity/units from parenthesis with equivalent quantity/units")

\* a bare-pair handler that adopts the parenthetical's pair in every row
address_quantity_unit_only_parenthesis_adopting(st, p) ==
    LET quantity_unit_only == extract_quantity_unit_pairs(p)
    IN IF quantity_unit_only = <<>>
       THEN Result(st.q, st.u, st.sq, st.su, "not a quantity unit only parenthesis")
       ELSE Result(quantity_unit_only[1][1], quantity_unit_only[1][2], st.q, st.u,
                   "used quantity/units from parenthesis with quantity/units only")

\* _address_quantity_unit_only_parenthesis
address_quantity_unit_only_parenthesis(st, p) ==
    LET quantity_unit_only == extract_quantity_unit_pairs(p)
        parenthesis_quantity == quantity_unit_only[1][1]
        parenthesis_unit == quantity_unit_only[1][2]
        parenthesis_unit_is_basic == parenthesis_unit \in BASIC_UNITS_SET
        unit_is_basic == st.u \in BASIC_UNITS_SET
    IN IF quantity_unit_only = <<>>
       THEN Result(st.q, st.u, st.sq, st.su, "not a quantity unit only parenthesis")
       ELSE IF ~TruthyQ(st.q) /\ ~TruthyU(st.u)
       THEN Result(parenthesis_quantity, parenthesis_unit, st.q, st.u,
                   "used quantity/unit from parenthesis with no quantity/unit")
       ELSE IF TruthyQ(st.q) /\ ~TruthyU(st.u)
       THEN Result(Multiplied(st.q, parenthesis_quantity), parenthesis_unit, st.q, st.u,
                   "multiplied starting quantity with parenthesis quantity")
       ELSE IF ~TruthyQ(st.q) /\ TruthyU(st.u)
       THEN Result(parenthesis_quantity, parenthesis_unit, st.q, st.u,
                   "No quantity but has units, used parenthesis")
       ELSE IF TruthyQ(st.q) /\ TruthyU(st.u) /\ parenthesis_unit_is_basic /\ unit_is_basic
       THEN Result(st.q, st.u, parenthesis_quantity, parenthesis_unit,
                   "maybe quantity/unit is: parenthesis")
       ELSE IF TruthyQ(st.q) /\ TruthyU(st.u) /\ ~parenthesis_unit_is_basic /\ ~unit_is_basic
       THEN Result(st.q, st.u, parenthesis_quantity, parenthesis_unit,
                   "maybe quantity/unit is: parenthesis")
       ELSE IF TruthyQ(st.q) /\ TruthyU(st.u) /\ parenthesis_unit_is_basic /\ ~unit_is_basic
       THEN Result(Multiplied(st.q, parenthesis_quantity), parenthesis_unit, st.q, st.u,
                   "multiplied starting quantity with parenthesis quantity")
       ELSE IF TruthyQ(st.q) /\ TruthyU(st.u) /\ parenthesis_unit_is_basic
       THEN Result(parenthesis_quantity, parenthesis_unit, st.q, st.u,
                   "maybe quantity/unit is: original")
       ELSE IF TruthyQ(st.q) /\ TruthyU(st.u) /\ unit_is_basic
       THEN Result(st.q, st.u, parenthesis_quantity, parenthesis_unit,
                   "maybe quantity/unit is: original")
       ELSE Result(parenthesis_quantity, parenthesis_unit, st.q, st.u,
                   "used quantity/units from parenthesis with quantity/units only")

----------------------------------------------------------------------------
(* Post-Processor                                                          *)

\* a standardization that copies the unit instead of looking it up
add_standard_units_copied(u, std) == IF TruthyU(u) THEN u ELSE std

\* _add_standard_units: the standardized name it leaves, given the one found
add_standard_units(u, std) ==
    IF TruthyU(u) /\ u \in UNIT_TO_STANDARD_UNIT_KEYS THEN UNIT_TO_STANDARD_UNIT(u) ELSE std

Triple(q, u, std) == [q |-> q, u |-> u, std |-> std]

\* a swap that never happens
prioritize_weight_units_never(primary, secondary) == <<primary, secondary>>

\* a swap that looks at the primary unit only
prioritize_weight_units_unless_weight(primary, secondary) ==
    IF primary.u \in WEIGHT_UNITS_SET THEN <<primary, secondary>>
    ELSE <<secondary, primary>>

\* a swap that does not ask whether the secondary unit is a weight
prioritize_weight_units_any_secondary(primary, secondary) ==
    IF primary.u \in WEIGHT_UNITS_SET THEN <<primary, secondary>>
    ELSE <<secondary, primary>>

\* _prioritize_weight_units on the primary and the secondary triple
prioritize_weight_units(primary, secondary) ==
    IF primary.u \in WEIGHT_UNITS_SET THEN <<primary, secondary>>
    ELSE IF primary.u \notin WEIGHT_UNITS_SET /\ secondary.u \in WEIGHT_UNITS_SET
    THEN <<secondary, primary>>
    ELSE <<primary, secondary>>

\* _utils._extract_edge_case_foods: the special-cased foods
EdgeCaseFoods == {"half-and-half"}

RECURSIVE remove_parenthesis_from_str(_)
\* _utils._remove_parenthesis_from_str: the text without its parentheticals
remove_parenthesis_from_str(t) ==
    IF t = <<>> THEN <<>>
    ELSE IF t[1] = LP /\ \E j \in 2..Len(t) : t[j] = RP
         THEN LET close == CHOOSE j \in 2..Len(t) :
                               t[j] = RP /\ \A k \in 2..(j - 1) : t[k] # RP
              IN remove_parenthesis_from_str(Rest(t, close))
    ELSE <<t[1]>> \o remove_parenthesis_from_str(Rest(t, 1))

RECURSIVE remove_casual_quantities(_)
\* _find_and_remove with the casual-quantity pattern: a phrase of the table
\* is cut out where its words stand next to each other
remove_casual_quantities(t) ==
    IF t = <<>> THEN <<>>
    ELSE IF Len(t) >= 2 /\ IsStr(t[1]) /\ IsStr(t[2])
            /\ <<t[1].s, t[2].s>> \in DOMAIN CASUAL_QUANTITIES
         THEN <<Empty, Empty>> \o remove_casual_quantities(Rest(t, 2))
    ELSE IF IsStr(t[1]) /\ <<t[1].s>> \in DOMAIN CASUAL_QUANTITIES
         THEN <<Empty>> \o remove_casual_quantities(Rest(t, 1))
    ELSE <<t[1]>> \o remove_casual_quantities(Rest(t, 1))

\* _utils._find_and_remove with the pattern of a word table: each word of
\* the table is cut out of the text, and leaves its place empty
find_and_remove(t, words) ==
    [i \in DOMAIN t |-> IF IsIn(t[i], words) THEN Empty ELSE t[i]]

\* _find_and_remove with the number pattern
remove_numbers(t) == [i \in DOMAIN t |-> IF IsStr(t[i]) THEN t[i] ELSE Empty]

\* re.sub(r'[^\w\s]', '', ...) on a word: what is left of the words that hold
\* a character that is neither a word character nor a blank
SpecialCharacters ==
    ("-" :> "") @@ ("+" :> "") @@ ("&" :> "") @@ ("%" :> "") @@ ("/" :> "") @@
    ("(" :> "") @@ (")" :> "") @@ ("~" :> "") @@ (InchSymbol :> "") @@
    ("-&-" :> "") @@ ("-to-" :> "to") @@ ("-or-" :> "or") @@ ("-and-" :> "and") @@
    ("opt." :> "opt") @@ ("opts." :> "opts") @@ ("req." :> "req") @@
    ("tsp." :> "tsp") @@ ("tspn." :> "tspn") @@ ("tspns." :> "tspns") @@
    ("tspn.tspns." :> "tspntspns") @@ ("half-and-half" :> "halfandhalf")
remove_special_characters(w) ==
    IF w \in DOMAIN SpecialCharacters THEN SpecialCharacters[w] ELSE w

\* the words ending in "ly" of the model
LyWords == {"lightly", "roughly", "finely"}

\* _extract_foods: the food phrase, as its words. The patterns are applied
\* in the order of patterns_map, then the special characters are deleted
\* and the blanks collapsed
extract_foods(t) ==
    LET bare == remove_parenthesis_from_str(t)
        edge == SelectSeq(bare, LAMBDA tok : IsIn(tok, EdgeCaseFoods))
        units == find_and_remove(bare, UNITS_SET)
        numbers == remove_numbers(units)
        prep_words == find_and_remove(numbers, PREP_WORDS)
        ly_words == find_and_remove(prep_words, LyWords)
        unit_modifiers == find_and_remove(ly_words, UNIT_MODIFIERS)
        dimension_units == find_and_remove(unit_modifiers, DIMENSION_UNITS_SET)
        approximate_strings == find_and_remove(dimension_units, APPROXIMATE_STRINGS)
        size_modifiers_cut == find_and_remove(approximate_strings, SOMETIMES_UNITS_SET)
        casual_quantities == remove_casual_quantities(size_modifiers_cut)
        stop_words == find_and_remove(casual_quantities, STOP_WORDS)
        kept == SelectSeq(stop_words,
                          LAMBDA tok : IsStr(tok) /\ remove_special_characters(tok.s) # "")
    IN IF edge # <<>> THEN <<edge[1].s>>
       ELSE [i \in DOMAIN kept |-> remove_special_characters(kept[i].s)]

\* the lexicographic order of the prep and "-ly" words of the model
PrepRank == ("chopped" :> 1) @@ ("diced" :> 2) @@ ("finely" :> 3) @@ ("grated" :> 4)
            @@ ("lightly" :> 5) @@ ("roughly" :> 6)

RECURSIVE SortedSet(_, _)
\* list(set(...)) followed by list.sort(): the words of S once each, in the
\* order of rank
SortedSet(S, rank) ==
    IF S = {} THEN <<>>
    ELSE LET w == CHOOSE w \in S : \A v \in S : rank[w] <= rank[v]
         IN <<w>> \o SortedSet(S \ {w}, rank)

\* _extract_prep_words: the "-ly" words found that are not approximation
\* words, and the prep words found; made unique, then sorted
extract_prep_words(t) ==
    LET ly_ending_words == {w \in LyWords : HasWordIn(t, {w})} \ APPROXIMATE_STRINGS
        prep_words == {w \in PREP_WORDS : HasWordIn(t, {w})}
    IN SortedSet(prep_words \cup ly_ending_words, PrepRank)

\* SIZE_MODIFIERS_PATTERN.findall: every occurrence, in order
SizeModifierMatches(t) ==
    LET m == SelectSeq(t, LAMBDA tok : IsIn(tok, SOMETIMES_UNITS_SET))
    IN [i \in DOMAIN m |-> m[i].s]

\* the order of list.sort() on the size words of the model
SizeRank == ("large" :> 1) @@ ("medium" :> 2) @@ ("small" :> 3)

RECURSIVE SortedBy(_, _)
\* list.sort(): the elements of ws in the order of rank, duplicates kept
SortedBy(ws, rank) ==
    IF ws = <<>> THEN <<>>
    ELSE LET i == CHOOSE i \in DOMAIN ws : \A j \in DOMAIN ws : rank[ws[i]] <= rank[ws[j]]
         IN <<ws[i]>> \o SortedBy(SubSeq(ws, 1, i - 1) \o SubSeq(ws, i + 1, Len(ws)), rank)

\* _extract_size_modifiers
extract_size_modifiers(t) == SortedBy(SizeModifierMatches(t), SizeRank)

\* _utils._has_volume_unit
has_volume_unit(u, std, su, sstd) ==
    \E x \in {u, std, su, sstd} : x \in VOLUME_UNITS_SET

\* the food-density collaborator: the foods it knows
FoodDensityFoods == {<<"sugar">>}
\* None where a dict is expected, written as a set so that it compares with
\* the dicts (sets of keys): it has no key, and .get on it raises
NoneDensities == {None}
\* _utils._get_food_density: what it may return, each dict as the set of its
\* keys.  The lookup may find nothing, and nothing is either a dict without a
\* density or None: both are outcomes of a miss
get_food_density(f) ==
    IF f \in FoodDensityFoods THEN {{"density"}} ELSE {{}, NoneDensities}

NoGram == [by |-> "None", q |-> NoneQ, u |-> None]
Gram(by, q, u) == [by |-> by, q |-> q, u |-> u]

\* the per-food gram-weight collaborator: foods with a direct gram weight
DirectWeightFoods == {<<"butter">>}
\* _utils._get_gram_weight: from the density when the unit is a volume, else
\* from the unit when it is a weight, else by direct lookup; a gram weight is
\* recorded with the quantity and unit it was computed from
get_gram_weight(f, q, u, dens) ==
    IF ~TruthyQ(q) THEN NoGram
    ELSE IF u \in WEIGHT_UNITS_SET THEN Gram("weight", q, u)
    ELSE IF u \in VOLUME_UNITS_SET /\ "density" \in dens THEN Gram("density", q, u)
    ELSE IF f \in DirectWeightFoods THEN Gram("direct", q, u)
    ELSE NoGram

\* the per-item average-weight collaborator
SingleItemFoods == {<<"egg">>}
\* _utils._get_single_item_gram_weight
get_single_item_gram_weight(f, q) ==
    IF f \in SingleItemFoods /\ TruthyQ(q) THEN Gram("single", q, None) ELSE NoGram

\* the food-unit collaborator and FOOD_UNIT_TO_STANDARD_FOOD_UNIT
FOOD_UNIT_TO_STANDARD_FOOD_UNIT == ("tortillas" :> "tortilla") @@ ("tortilla" :> "tortilla")

\* _utils._get_food_unit: the first food unit of the text, or None
get_food_unit(t) ==
    LET m == SelectSeq(t, LAMBDA tok : IsIn(tok, DOMAIN FOOD_UNIT_TO_STANDARD_FOOD_UNIT))
    IN IF m = <<>> THEN None ELSE m[1].s

\* dict.get
DictGet(d, key) == IF key \in DOMAIN d THEN d[key] ELSE None

\* _get_food_units: the (unit, standardized unit) it leaves
get_food_units(t, u, std) ==
    IF ~TruthyU(u) /\ ~TruthyU(std)
    THEN <<get_food_unit(t), DictGet(FOOD_UNIT_TO_STANDARD_FOOD_UNIT, get_food_unit(t))>>
    ELSE <<u, std>>

\* _utils._is_weight_unit / _utils._is_volumetric_unit
is_weight_unit(std) == std \in WEIGHT_UNITS_SET
is_volumetric_unit(std) == std \in VOLUME_UNITS_SET

\* a default that is never applied
set_default_quantities_never(q, std) == q

\* _set_default_quantities: the quantity it leaves
set_default_quantities(q, std) ==
    LET is_weight_or_volume_unit == is_weight_unit(std) \/ is_volumetric_unit(std)
        missing_primary_quantity == q = NoneQ
    IN IF is_weight_or_volume_unit /\ missing_primary_quantity THEN IntStr(1) ELSE q

\* the animal-protein cut table
AnimalProteinUnits == {"breast", "breasts"}
\* _utils._get_animal_protein_gram_weight
animal_protein_gram_weight(q, u) ==
    IF u \in AnimalProteinUnits /\ TruthyQ(q) THEN Gram("protein", q, u) ELSE NoGram

\* an animal-protein stage that does not ask whether a gram weight is there
get_animal_protein_gram_weight_always(gw, q, u, sq, su) ==
    IF animal_protein_gram_weight(q, u) # NoGram
    THEN animal_protein_gram_weight(q, u)
    ELSE IF animal_protein_gram_weight(sq, su) # NoGram
    THEN animal_protein_gram_weight(sq, su)
    ELSE gw

\* _get_animal_protein_gram_weight: the gram weight it leaves
get_animal_protein_gram_weight(gw, q, u, sq, su) ==
    IF gw = NoGram
    THEN IF animal_protein_gram_weight(q, u) # NoGram
         THEN animal_protein_gram_weight(q, u)
         ELSE animal_protein_gram_weight(sq, su)
    ELSE gw

----------------------------------------------------------------------------
(* Inputs: the ingredient lines the model parses                           *)

Two == Num(IntStr(2))
Three == Num(IntStr(3))
W(w) == Str(w)

\* free text: every line of at most MaxLen of these tokens
TextAlphabet == {Two, W("cup"), W("can"), W("sugar")}
FreeTexts == AllSeqs(TextAlphabet, MaxLen)

\* spaced numbers: at most MaxNums numbers, then a unit or nothing
NumAlphabet == {Num(DecStr(1, 2)), Num(IntStr(1)), Two, BadNum}
SpacedNumberTexts ==
    {ns \o tl : ns \in AllSeqs(NumAlphabet, MaxNums), tl \in {<<>>, <<W("cup")>>}}

\* one free parenthetical of at most MaxParenLen tokens, after the first
\* token of a short line
ParenAlphabet == {W("about"), Three, W("oz"), W("can"), W("each")}
ParenHosts == {<<>>, <<Two>>, <<W("can")>>, <<Two, W("can")>>, <<Two, W("cup")>>}
FreeParenTexts ==
    {(IF h = <<>> THEN <<>> ELSE <<h[1]>>) \o <<LP>> \o in \o <<RP>> \o Rest(h, 1) :
        h \in ParenHosts, in \in AllSeqs(ParenAlphabet, MaxParenLen) \ {<<>>}}

\* at most MaxParens parentheticals of these forms, after a short line
ParenForms == {
    <<LP, Three, RP>>,
    <<LP, W("about"), Three, W("oz"), RP>>,
    <<LP, Three, W("oz"), RP>>,
    <<LP, W("about"), Three, W("can"), RP>>,
    <<LP, W("optional"), RP>>,
    <<LP, W("required"), RP>>}
SeqHosts == {<<>>, <<Two>>, <<W("oz")>>, <<W("cup"), W("sugar")>>,
             <<Two, W("cup"), W("sugar")>>, <<Two, W("can")>>,
             <<W("sugar"), W("optional")>>, <<W("sugar"), W("required")>>}
ParenSeqTexts == {h \o Flatten(ps) : h \in SeqHosts, ps \in AllSeqs(ParenForms, MaxParens)}

\* _standardize as a function of the text: the method list in its order,
\* then _remove_extra_whitespaces; <<>> stands for no text when a pass raises
standardize(t) ==
    LET t1 == drop_special_dashes(t)
        t2 == find_and_remove_percentages(t1)
        t3 == replace_number_followed_by_inch_symbol(t2)
        t4 == find_and_replace_casual_quantities(t3)
        t5 == find_and_replace_prefixed_number_words(t4)
        t6 == find_and_replace_number_words(t5)
        r7 == find_and_replace_fraction_words(t6)
        t8 == clean_html_and_unicode(r7.text)
        t9 == replace_unicode_fraction_slashes(t8)
        t10 == replace_emojis(t9)
        t11 == convert_fractions_to_decimals(t10)
        t12 == force_ws_between_numbers_and_chars(t11)
        t13 == remove_repeat_units_in_ranges(t12)
        t14 == separate_dimensions(t13).text
        t15 == remove_x_separators(t14)
        t16 == clean_hyphen_padded_substrings(t15)
        t17 == merge_multi_nums(t16).text
        t18 == fix_ranges(t17)
        t19 == find_and_replace_numbers_separated_by_add_numbers(t18)
        t20 == replace_a_or_an_quantities(t19)
        t21 == avg_ranges(t20)
        t22 == split_by_parenthesis(t21).text
    IN [raised |-> r7.raised,
        text |-> IF r7.raised THEN <<>> ELSE remove_extra_whitespaces(t22),
        staged |-> t21,
        parens |-> split_by_parenthesis(t21).parens,
        dims |-> separate_dimensions(t13).dims]

RECURSIVE address_parenthesis(_, _)
\* _address_parenthesis as a function of the four fields: the three handlers
\* on every parenthetical, in the order of the list
address_parenthesis(f, parens) ==
    IF parens = <<>> THEN f
    ELSE LET a == address_quantity_only_parenthesis(f, parens[1])
             b == address_equivalence_parenthesis(
                      [q |-> a.q, u |-> a.u, sq |-> a.sq, su |-> a.su], parens[1])
             c == address_quantity_unit_only_parenthesis(
                      [q |-> b.q, u |-> b.u, sq |-> b.sq, su |-> b.su], parens[1])
         IN address_parenthesis([q |-> c.q, u |-> c.u, sq |-> c.sq, su |-> c.su],
                                Rest(parens, 1))

\* __init__ as a function of the line: the fields as __init__ sets them, the
\* steps of _parse in their order, and the record to_json builds from the
\* result; raised when a pass raises, to_json_may_raise when the density
\* lookup runs and finds nothing (to_json raises if that nothing is None)
parse(t) ==
    LET n == standardize(t)
        required == is_ingredient_required(n.text, n.parens)
        e == extract_first_quantity_unit(n.text, NoneQ, None)
        f == address_parenthesis([q |-> e[1], u |-> e[2], sq |-> NoneQ, su |-> None],
                                 n.parens)
        w == prioritize_weight_units(
                 Triple(f.q, f.u, add_standard_units(f.u, None)),
                 Triple(f.sq, f.su, add_standard_units(f.su, None)))
        fd == extract_foods(n.text)
        found == IF has_volume_unit(w[1].u, w[1].std, w[2].u, w[2].std)
                 THEN get_food_density(fd) ELSE {{}}
        dens == CHOOSE d \in found : d # NoneDensities
        g1 == get_gram_weight(fd, w[1].q, w[1].u, dens)
        g2 == IF g1 = NoGram THEN get_single_item_gram_weight(fd, w[1].q) ELSE g1
        fu == get_food_units(n.text, w[1].u, w[1].std)
        qty == set_default_quantities(w[1].q, fu[2])
    IN [raised |-> n.raised,
        to_json_may_raise |-> ~n.raised /\ NoneDensities \in found,
        record |->
            IF n.raised THEN <<>>
            ELSE [ingredient |-> t,
                  standardized_ingredient |-> n.text,
                  food |-> fd,
                  quantity |-> qty,
                  unit |-> fu[1],
                  standardized_unit |-> fu[2],
                  secondary_quantity |-> w[2].q,
                  secondary_unit |-> w[2].u,
                  standardized_secondary_unit |-> w[2].std,
                  density |-> IF "density" \in dens THEN "density" ELSE None,
                  gram_weight |-> get_animal_protein_gram_weight(g2, qty, fu[1],
                                                                 w[2].q, w[2].u),
                  prep |-> extract_prep_words(n.staged),
                  size_modifiers |-> extract_size_modifiers(n.staged),
                  dimensions |-> n.dims,
                  is_required |-> required,
                  parenthesis_content |-> n.parens]]

\* a range in each of its four forms, then a unit
RangeEnds == {Num(DecStr(1, 2)), Num(IntStr(1)), Two, Num(IntStr(5))}
RangeTexts ==
    UNION {{<<a, W("-"), b, W("cup")>>,
            <<W("between"), a, W("and"), b, W("cup")>>,
            <<a, W("to"), b, W("cup")>>,
            <<a, W("or"), b, W("cup")>>} : a \in RangeEnds, b \in RangeEnds}

\* an equivalence parenthetical with a per-unit phrase (each string of
\* QUANTITY_PER_UNIT_STRINGS, word by word), after each of the four kinds of
\* line (quantity or not, unit or not)
PerUnitTokens(e) == [i \in DOMAIN PerUnitWords[e] |-> W(PerUnitWords[e][i])]
PerUnitHosts == {<<W("sugar")>>, <<Two, W("egg")>>, <<W("cup"), W("sugar")>>,
                 <<Two, W("cup"), W("sugar")>>}
PerUnitTexts ==
    UNION {{h \o <<LP, W(a), Three, W("oz")>> \o PerUnitTokens(e) \o <<RP>>,
            h \o <<LP>> \o PerUnitTokens(e) \o <<W(a), Three, W("oz"), RP>>} :
           h \in PerUnitHosts, a \in APPROXIMATE_STRINGS, e \in QUANTITY_PER_UNIT_STRINGS}

\* lines that exercise the remaining passes and lookups
OtherTexts == {
    <<Num(IntStr(1)), W("half"), W("cup"), W("sugar")>>,
    <<W("one"), W("quarter"), W("cup")>>,
    <<Two, W("tortillas")>>,
    <<W("tortillas")>>,
    <<Two, W("egg")>>,
    <<W("egg")>>,
    <<Two, W("breasts")>>,
    <<W("a"), W("cup"), W("sugar")>>,
    <<W("an"), W("egg")>>,
    <<W("a"), W("couple"), W("egg")>>,
    <<W("tad"), W("sugar")>>,
    <<W("twenty"), W("two"), W("oz"), W("butter")>>,
    <<Two, W("-"), Three, W("oz"), W("grated"), W("sugar")>>,
    <<Two, W("~"), Three, W("oz")>>,
    <<Two, W("-"), W("-"), Two, W("cup")>>,
    <<W("between"), Num(IntStr(1)), W("and"), Three, W("cup")>>,
    <<Two, W("to"), Three, W("cup")>>,
    <<Two, W("-to-"), Three, W("cup")>>,
    <<Two, W("or"), Three, W("can")>>,
    <<Num(IntStr(1)), W("-"), Two, W("and"), Three, W("cup")>>,
    <<Two, W("between"), Num(IntStr(1)), W("and"), Three, W("cup")>>,
    <<Two, W("cup"), W("-"), Three, W("cups")>>,
    <<Num(IntStr(1)), W("and"), Num(DecStr(1, 2)), W("cup")>>,
    <<Two, W("plus"), Num(DecStr(1, 2)), W("cup")>>,
    <<Glued(IntStr(1), "cup"), W("sugar")>>,
    <<Two, Frac(1, 2), W("cup")>>,
    <<Glyph(1, 2), W("cup")>>,
    <<USlash(1, 2), W("cup")>>,
    <<Two, W("cup"), W("sugar"), Emoji>>,
    <<Two, W("cup"), Two, W("%"), W("milk")>>,
    <<Two, W("x"), Three, W("oz")>>,
    <<Two, InchSymbolTok, W("sugar")>>,
    <<Two, W("inch"), W("sugar")>>,
    <<Two, W("large"), W("large"), W("small"), W("egg")>>,
    <<Two, W("cup"), W("lightly"), W("packed"), W("chopped"), W("chopped"), W("sugar")>>,
    <<W("half-and-half"), Two, W("cup")>>,
    <<Two, W("tspn."), W("sugar")>>,
    <<Two, W("cup"), W("sugar"), LP, W("about"), Two, Two, W("oz"), RP>>,
    <<Two, W("breasts"), W("butter")>>,
    <<Two, W("breasts"), W("egg")>>,
    <<Two, W("oz"), W("egg")>>,
    <<Two, W("can"), LP, Three, W("breasts"), RP>>,
    <<Two, W("breasts"), LP, Three, W("breasts"), RP>>}

Inputs == FreeTexts \cup SpacedNumberTexts \cup FreeParenTexts \cup ParenSeqTexts
          \cup RangeTexts \cup PerUnitTexts \cup OtherTexts

----------------------------------------------------------------------------
(* The state machine: __init__, then _parse step by step                   *)

\* the history the properties refer to: the resolver's latest handler step
\* (its name, the parenthetical, the fields before it), the handlers that
\* changed a field for the current parenthetical, the pair the extractor
\* left, the triples before and after the weight-priority swap, and the
\* number of gram-weight computations that have run
NoState == [q |-> NoneQ, u |-> None, sq |-> NoneQ, su |-> None]
NoTriples == <<[q |-> NoneQ, u |-> None, std |-> None], [q |-> NoneQ, u |-> None, std |-> None]>>
NoHist == [handler |-> "", paren |-> <<>>, before |-> NoState, entry |-> NoState,
           changed |-> {},
           extracted |-> <<NoneQ, None>>, resolved |-> NoTriples, swapped |-> NoTriples,
           gram_runs |-> 0]

\* the fields of an object that is not constructed yet
NotConstructed ==
    [pc |-> "idle", ingredient |-> <<>>, standardized_ingredient |-> <<>>,
     staged_ingredient |-> <<Str(None)>>, parenthesis_content |-> <<>>,
     parenthesis_notes |-> <<>>, dimensions |-> <<>>,
     quantity |-> NoneQ, unit |-> None, standardized_unit |-> None,
     secondary_quantity |-> NoneQ, secondary_unit |-> None,
     standardized_secondary_unit |-> None,
     food |-> <<None>>, prep |-> <<>>, size_modifiers |-> <<>>,
     densities |-> {}, gram_weight |-> NoGram, is_required |-> TRUE,
     parsed_ingredient |-> <<>>, idx |-> 0, hist |-> NoHist]

\* __init__
Init ==
    /\ ingredient \in Inputs
    /\ standardized_ingredient = ingredient
    /\ pc = "_drop_special_dashes"
    /\ food = <<None>>
    /\ quantity = NoneQ /\ unit = None /\ standardized_unit = None
    /\ secondary_quantity = NoneQ /\ secondary_unit = None
    /\ standardized_secondary_unit = None
    /\ densities = {}
    /\ gram_weight = NoGram
    /\ prep = <<>> /\ size_modifiers = <<>> /\ dimensions = <<>>
    /\ is_required = TRUE
    /\ staged_ingredient = <<Str(None)>>
    /\ parenthesis_content = <<>>
    /\ parenthesis_notes = <<>>
    /\ parsed_ingredient = <<>>
    /\ warnings = 0
    /\ idx = 0
    /\ hist = NoHist
    /\ other = NotConstructed

measures == <<quantity, unit, standardized_unit,
              secondary_quantity, secondary_unit, standardized_secondary_unit>>
derived == <<food, prep, size_modifiers, densities, gram_weight>>
passFrame == <<ingredient, other, staged_ingredient, parenthesis_content, parenthesis_notes,
               dimensions, measures, derived, is_required, parsed_ingredient,
               warnings, idx, hist>>

\* the passes of _standardize's method list, in its order
DropSpecialDashes ==
    /\ pc = "_drop_special_dashes"
    /\ pc' = "_find_and_remove_percentages"
    /\ standardized_ingredient' =
           drop_special_dashes(standardized_ingredient)
    /\ UNCHANGED passFrame

FindAndRemovePercentages ==
    /\ pc = "_find_and_remove_percentages"
    /\ pc' = "_replace_number_followed_by_inch_symbol"
    /\ standardized_ingredient' =
           find_and_remove_percentages(standardized_ingredient)
    /\ UNCHANGED passFrame

ReplaceNumberFollowedByInchSymbol ==
    /\ pc = "_replace_number_followed_by_inch_symbol"
    /\ pc' = "_find_and_replace_casual_quantities"
    /\ standardized_ingredient' =
           replace_number_followed_by_inch_symbol(standardized_ingredient)
    /\ UNCHANGED passFrame

FindAndReplaceCasualQuantities ==
    /\ pc = "_find_and_replace_casual_quantities"
    /\ pc' = "_find_and_replace_prefixed_number_words"
    /\ standardized_ingredient' =
           find_and_replace_casual_quantities(standardized_ingredient)
    /\ UNCHANGED passFrame

FindAndReplacePrefixedNumberWords ==
    /\ pc = "_find_and_replace_prefixed_number_words"
    /\ pc' = "_find_and_replace_number_words"
    /\ standardized_ingredient' =
           find_and_replace_prefixed_number_words(standardized_ingredient)
    /\ UNCHANGED passFrame

FindAndReplaceNumberWords ==
    /\ pc = "_find_and_replace_number_words"
    /\ pc' = "_find_and_replace_fraction_words"
    /\ standardized_ingredient' =
           find_and_replace_number_words(standardized_ingredient)
    /\ UNCHANGED passFrame

\* an exception leaves _parse and __init__: no object, no record
FindAndReplaceFractionWords ==
    LET r == find_and_replace_fraction_words(standardized_ingredient)
    IN /\ pc = "_find_and_replace_fraction_words"
       /\ pc' = IF r.raised THEN "raised" ELSE "_clean_html_and_unicode"
       /\ standardized_ingredient' = r.text
       /\ UNCHANGED passFrame

CleanHtmlAndUnicode ==
    /\ pc = "_clean_html_and_unicode"
    /\ pc' = "_replace_unicode_fraction_slashes"
    /\ standardized_ingredient' =
           clean_html_and_unicode(standardized_ingredient)
    /\ UNCHANGED passFrame

ReplaceUnicodeFractionSlashes ==
    /\ pc = "_replace_unicode_fraction_slashes"
    /\ pc' = "_replace_emojis"
    /\ standardized_ingredient' =
           replace_unicode_fraction_slashes(standardized_ingredient)
    /\ UNCHANGED passFrame

ReplaceEmojis ==
    /\ pc = "_replace_emojis"
    /\ pc' = "_convert_fractions_to_decimals"
    /\ standardized_ingredient' =
           replace_emojis(standardized_ingredient)
    /\ UNCHANGED passFrame

ConvertFractionsToDecimals ==
    /\ pc = "_convert_fractions_to_decimals"
    /\ pc' = "_force_ws_between_numbers_and_chars"
    /\ standardized_ingredient' =
           convert_fractions_to_decimals(standardized_ingredient)
    /\ UNCHANGED passFrame

ForceWsBetweenNumbersAndChars ==
    /\ pc = "_force_ws_between_numbers_and_chars"
    /\ pc' = "_remove_repeat_units_in_ranges"
    /\ standardized_ingredient' =
           force_ws_between_numbers_and_chars(standardized_ingredient)
    /\ UNCHANGED passFrame

RemoveRepeatUnitsInRanges ==
    /\ pc = "_remove_repeat_units_in_ranges"
    /\ pc' = "_separate_dimensions"
    /\ standardized_ingredient' =
           remove_repeat_units_in_ranges(standardized_ingredient)
    /\ UNCHANGED passFrame

SeparateDimensions ==
    /\ pc = "_separate_dimensions"
    /\ pc' = "_remove_x_separators"
    /\ standardized_ingredient' = separate_dimensions(standardized_ingredient).text
    /\ dimensions' = separate_dimensions(standardized_ingredient).dims
    /\ UNCHANGED <<ingredient, other, staged_ingredient, parenthesis_content, parenthesis_notes,
                   measures, derived, is_required, parsed_ingredient, warnings, idx, hist>>

RemoveXSeparators ==
    /\ pc = "_remove_x_separators"
    /\ pc' = "_clean_hyphen_padded_substrings"
    /\ standardized_ingredient' =
           remove_x_separators(standardized_ingredient)
    /\ UNCHANGED passFrame

CleanHyphenPaddedSubstrings ==
    /\ pc = "_clean_hyphen_padded_substrings"
    /\ pc' = "_merge_multi_nums"
    /\ standardized_ingredient' =
           clean_hyphen_padded_substrings(standardized_ingredient)
    /\ UNCHANGED passFrame

MergeMultiNums ==
    /\ pc = "_merge_multi_nums"
    /\ pc' = "_fix_ranges"
    /\ standardized_ingredient' = merge_multi_nums(standardized_ingredient).text
    /\ warnings' = warnings + merge_multi_nums(standardized_ingredient).warned
    /\ UNCHANGED <<ingredient, other, staged_ingredient, parenthesis_content, parenthesis_notes,
                   dimensions, measures, derived, is_required, parsed_ingredient, idx, hist>>

\* a range pass that also averages, before the sums and a/an
FixRangesThenAverage ==
    /\ pc = "_fix_ranges"
    /\ pc' = "_find_and_replace_numbers_separated_by_add_numbers"
    /\ standardized_ingredient' = avg_ranges(fix_ranges(standardized_ingredient))
    /\ UNCHANGED passFrame

FixRanges ==
    /\ pc = "_fix_ranges"
    /\ pc' = "_find_and_replace_numbers_separated_by_add_numbers"
    /\ standardized_ingredient' =
           fix_ranges(standardized_ingredient)
    /\ UNCHANGED passFrame

FindAndReplaceNumbersSeparatedByAddNumbers ==
    /\ pc = "_find_and_replace_numbers_separated_by_add_numbers"
    /\ pc' = "_replace_a_or_an_quantities"
    /\ standardized_ingredient' =
           find_and_replace_numbers_separated_by_add_numbers(standardized_ingredient)
    /\ UNCHANGED passFrame

ReplaceAOrAnQuantities ==
    /\ pc = "_replace_a_or_an_quantities"
    /\ pc' = "_average_ranges"
    /\ standardized_ingredient' =
           replace_a_or_an_quantities(standardized_ingredient)
    /\ UNCHANGED passFrame

AverageRanges ==
    /\ pc = "_average_ranges"
    /\ pc' = "_separate_parenthesis"
    /\ standardized_ingredient' =
           avg_ranges(standardized_ingredient)
    /\ UNCHANGED passFrame

\* a split that stages the text it leaves, not the text it found
SeparateParenthesisStagingRemainder ==
    /\ pc = "_separate_parenthesis"
    /\ pc' = "_remove_extra_whitespaces"
    /\ staged_ingredient' = split_by_parenthesis(standardized_ingredient).text
    /\ standardized_ingredient' = split_by_parenthesis(standardized_ingredient).text
    /\ parenthesis_content' = split_by_parenthesis(standardized_ingredient).parens
    /\ UNCHANGED <<ingredient, other, parenthesis_notes, dimensions, measures, derived,
                   is_required, parsed_ingredient, warnings, idx, hist>>

SeparateParenthesis ==
    /\ pc = "_separate_parenthesis"
    /\ pc' = "_remove_extra_whitespaces"
    /\ staged_ingredient' = standardized_ingredient
    /\ standardized_ingredient' = split_by_parenthesis(standardized_ingredient).text
    /\ parenthesis_content' = split_by_parenthesis(standardized_ingredient).parens
    /\ UNCHANGED <<ingredient, other, parenthesis_notes, dimensions, measures, derived,
                   is_required, parsed_ingredient, warnings, idx, hist>>

\* the last statement of _standardize
RemoveExtraWhitespaces ==
    /\ pc = "_remove_extra_whitespaces"
    /\ pc' = "_is_ingredient_required"
    /\ standardized_ingredient' =
           remove_extra_whitespaces(standardized_ingredient)
    /\ UNCHANGED passFrame

parseFrame == <<ingredient, other, standardized_ingredient, staged_ingredient,
                parenthesis_content, dimensions, parsed_ingredient, warnings>>

IsIngredientRequired ==
    /\ pc = "_is_ingredient_required"
    /\ pc' = "extract_first_quantity_unit"
    /\ is_required' = is_ingredient_required(standardized_ingredient, parenthesis_content)
    /\ UNCHANGED <<parseFrame, parenthesis_notes, measures, derived, idx, hist>>

\* the parenthetical the resolver is at, and the fields its handlers work on
Current == parenthesis_content[idx]
Fields == [q |-> quantity, u |-> unit, sq |-> secondary_quantity, su |-> secondary_unit]
Core(r) == [q |-> r.q, u |-> r.u, sq |-> r.sq, su |-> r.su]

\* extract_first_quantity_unit, and the entry of _address_parenthesis' loop
ExtractFirstQuantityUnit ==
    LET r == extract_first_quantity_unit(standardized_ingredient, quantity, unit)
    IN /\ pc = "extract_first_quantity_unit"
       /\ pc' = IF parenthesis_content = <<>> THEN "_add_standard_units"
                ELSE "_address_quantity_only_parenthesis"
       /\ quantity' = r[1]
       /\ unit' = r[2]
       /\ idx' = 1
       /\ hist' = [hist EXCEPT !.extracted = r]
       /\ UNCHANGED <<parseFrame, parenthesis_notes, standardized_unit, secondary_quantity,
                      secondary_unit, standardized_secondary_unit, derived, is_required>>

resolverFrame == <<parseFrame, standardized_unit, standardized_secondary_unit,
                   derived, is_required>>

\* the history after a handler that found the fields as they are and left r
Handled(name, r, seen) ==
    [hist EXCEPT !.handler = name, !.paren = Current, !.before = Fields,
                 !.entry = IF name = "_address_quantity_only_parenthesis" THEN Fields ELSE @,
                 !.changed = seen \cup (IF Core(r) # Fields THEN {name} ELSE {})]

\* the loop body of _address_parenthesis: the three handlers, in its order
AddressQuantityOnlyParenthesis ==
    LET r == address_quantity_only_parenthesis(Fields, Current)
    IN /\ pc = "_address_quantity_only_parenthesis"
       /\ pc' = "_address_equivalence_parenthesis"
       /\ quantity' = r.q /\ unit' = r.u
       /\ secondary_quantity' = r.sq /\ secondary_unit' = r.su
       /\ parenthesis_notes' = Append(parenthesis_notes, r.note)
       /\ hist' = Handled("_address_quantity_only_parenthesis", r, {})
       /\ UNCHANGED <<resolverFrame, idx>>

AddressEquivalenceParenthesis ==
    LET r == address_equivalence_parenthesis(Fields, Current)
    IN /\ pc = "_address_equivalence_parenthesis"
       /\ pc' = "_address_quantity_unit_only_parenthesis"
       /\ quantity' = r.q /\ unit' = r.u
       /\ secondary_quantity' = r.sq /\ secondary_unit' = r.su
       /\ parenthesis_notes' = Append(parenthesis_notes, r.note)
       /\ hist' = Handled("_address_equivalence_parenthesis", r, hist.changed)
       /\ UNCHANGED <<resolverFrame, idx>>

\* the last handler, and the loop's step to the next parenthetical or out
AddressQuantityUnitOnlyParenthesis ==
    LET r == address_quantity_unit_only_parenthesis(Fields, Current)
        more == idx < Len(parenthesis_content)
    IN /\ pc = "_address_quantity_unit_only_parenthesis"
       /\ pc' = IF more THEN "_address_quantity_only_parenthesis"
                ELSE "_add_standard_units"
       /\ idx' = IF more THEN idx + 1 ELSE idx
       /\ quantity' = r.q /\ unit' = r.u
       /\ secondary_quantity' = r.sq /\ secondary_unit' = r.su
       /\ parenthesis_notes' = Append(parenthesis_notes, r.note)
       /\ hist' = Handled("_address_quantity_unit_only_parenthesis", r, hist.changed)
       /\ UNCHANGED resolverFrame

AddStandardUnits ==
    /\ pc = "_add_standard_units"
    /\ pc' = "_prioritize_weight_units"
    /\ standardized_unit' = add_standard_units(unit, standardized_unit)
    /\ standardized_secondary_unit' =
           add_standard_units(secondary_unit, standardized_secondary_unit)
    /\ hist' = [hist EXCEPT !.resolved =
                   <<Triple(quantity, unit, standardized_unit'),
                     Triple(secondary_quantity, secondary_unit, standardized_secondary_unit')>>]
    /\ UNCHANGED <<parseFrame, parenthesis_notes, quantity, unit, secondary_quantity,
                   secondary_unit, derived, is_required, idx>>

PrioritizeWeightUnits ==
    LET r == prioritize_weight_units(
                 Triple(quantity, unit, standardized_unit),
                 Triple(secondary_quantity, secondary_unit, standardized_secondary_unit))
    IN /\ pc = "_prioritize_weight_units"
       /\ pc' = "_extract_foods"
       /\ quantity' = r[1].q /\ unit' = r[1].u /\ standardized_unit' = r[1].std
       /\ secondary_quantity' = r[2].q /\ secondary_unit' = r[2].u
       /\ standardized_secondary_unit' = r[2].std
       /\ hist' = [hist EXCEPT !.swapped = r]
       /\ UNCHANGED <<parseFrame, parenthesis_notes, derived, is_required, idx>>

ExtractFoods ==
    /\ pc = "_extract_foods"
    /\ pc' = "_extract_prep_words"
    /\ food' = extract_foods(standardized_ingredient)
    /\ UNCHANGED <<parseFrame, parenthesis_notes, measures, prep, size_modifiers,
                   densities, gram_weight, is_required, idx, hist>>

ExtractPrepWords ==
    /\ pc = "_extract_prep_words"
    /\ pc' = "_extract_size_modifiers"
    /\ prep' = extract_prep_words(staged_ingredient)
    /\ UNCHANGED <<parseFrame, parenthesis_notes, measures, food, size_modifiers,
                   densities, gram_weight, is_required, idx, hist>>

ExtractSizeModifiers ==
    /\ pc = "_extract_size_modifiers"
    /\ pc' = "_add_food_density"
    /\ size_modifiers' = extract_size_modifiers(staged_ingredient)
    /\ UNCHANGED <<parseFrame, parenthesis_notes, measures, food, prep,
                   densities, gram_weight, is_required, idx, hist>>

AddFoodDensity ==
    /\ pc = "_add_food_density"
    /\ pc' = "_add_gram_weights"
    /\ densities' \in IF has_volume_unit(unit, standardized_unit, secondary_unit,
                                         standardized_secondary_unit)
                      THEN get_food_density(food) ELSE {densities}
    /\ UNCHANGED <<parseFrame, parenthesis_notes, measures, food, prep, size_modifiers,
                   gram_weight, is_required, idx, hist>>

AddGramWeights ==
    LET grams_map == get_gram_weight(food, quantity, unit, densities)
    IN /\ pc = "_add_gram_weights"
       /\ pc' = "_add_gram_weights_for_single_item_foods"
       /\ gram_weight' = IF grams_map # NoGram THEN grams_map ELSE gram_weight
       /\ hist' = [hist EXCEPT !.gram_runs = @ + 1]
       /\ UNCHANGED <<parseFrame, parenthesis_notes, measures, food, prep, size_modifiers,
                      densities, is_required, idx>>

AddGramWeightsForSingleItemFoods ==
    /\ pc = "_add_gram_weights_for_single_item_foods"
    /\ pc' = "_get_food_units"
    /\ gram_weight' = IF gram_weight = NoGram
                      THEN get_single_item_gram_weight(food, quantity) ELSE gram_weight
    /\ hist' = [hist EXCEPT !.gram_runs = IF gram_weight = NoGram THEN @ + 1 ELSE @]
    /\ UNCHANGED <<parseFrame, parenthesis_notes, measures, food, prep, size_modifiers,
                   densities, is_required, idx>>

GetFoodUnits ==
    LET r == get_food_units(standardized_ingredient, unit, standardized_unit)
    IN /\ pc = "_get_food_units"
       /\ pc' = "_set_default_quantities"
       /\ unit' = r[1]
       /\ standardized_unit' = r[2]
       /\ UNCHANGED <<parseFrame, parenthesis_notes, quantity, secondary_quantity,
                      secondary_unit, standardized_secondary_unit, derived, is_required,
                      idx, hist>>

SetDefaultQuantities ==
    /\ pc = "_set_default_quantities"
    /\ pc' = "_get_animal_protein_gram_weight"
    /\ quantity' = set_default_quantities(quantity, standardized_unit)
    /\ UNCHANGED <<parseFrame, parenthesis_notes, unit, standardized_unit,
                   secondary_quantity, secondary_unit, standardized_secondary_unit,
                   derived, is_required, idx, hist>>

\* the last step of _parse
GetAnimalProteinGramWeight ==
    /\ pc = "_get_animal_protein_gram_weight"
    /\ pc' = "to_json"
    /\ gram_weight' = get_animal_protein_gram_weight(gram_weight, quantity, unit,
                                                     secondary_quantity, secondary_unit)
    /\ hist' = [hist EXCEPT !.gram_runs = IF gram_weight = NoGram THEN @ + 1 ELSE @]
    /\ UNCHANGED <<parseFrame, parenthesis_notes, measures, food, prep, size_modifiers,
                   densities, is_required, idx>>

\* to_json: the record __init__ stores in _parsed_ingredient
to_json ==
    [ingredient |-> ingredient,
     standardized_ingredient |-> standardized_ingredient,
     food |-> food,
     quantity |-> quantity,
     unit |-> unit,
     standardized_unit |-> standardized_unit,
     secondary_quantity |-> secondary_quantity,
     secondary_unit |-> secondary_unit,
     standardized_secondary_unit |-> standardized_secondary_unit,
     density |-> IF "density" \in densities THEN "density" ELSE None,
     gram_weight |-> gram_weight,
     prep |-> prep,
     size_modifiers |-> size_modifiers,
     dimensions |-> dimensions,
     is_required |-> is_required,
     parenthesis_content |-> parenthesis_content]

\* a call of the public method extract_first_quantity_unit on the constructed
\* object: it assigns the two primary fields from the normalized text again
\* and nothing else, so the stored record keeps the values of the parse
CallExtractFirstQuantityUnit ==
    LET r == extract_first_quantity_unit(standardized_ingredient, quantity, unit)
    IN /\ pc \in {"done", "called"}
       /\ pc' = "called"
       /\ quantity' = r[1]
       /\ unit' = r[2]
       /\ UNCHANGED <<parseFrame, parenthesis_notes, standardized_unit, secondary_quantity,
                      secondary_unit, standardized_secondary_unit, derived, is_required,
                      idx, hist>>

\* the last statement of __init__: self._densities.get("density") has no
\* guard, so to_json raises AttributeError when _densities is None and the
\* record is not stored
ToJson ==
    /\ pc = "to_json"
    /\ pc' = IF densities = NoneDensities THEN "to_json_raised" ELSE "done"
    /\ parsed_ingredient' = IF densities = NoneDensities THEN parsed_ingredient
                            ELSE to_json
    /\ UNCHANGED <<ingredient, other, standardized_ingredient, staged_ingredient,
                   parenthesis_content, parenthesis_notes, dimensions, measures, derived,
                   is_required, warnings, idx, hist>>

----------------------------------------------------------------------------
(* Two objects, their parses interleaved                                    *)

\* lines for two objects: with and without parentheticals, one that raises,
\* one whose malformed spaced-number group makes the merge pass warn
PairInputs == {
    <<Two, W("cup"), W("sugar")>>,
    <<Two, BadNum, W("cup"), W("sugar")>>,
    <<Two, Num(DecStr(1, 2)), W("cup"), W("sugar"), LP, Three, RP>>,
    <<W("oz"), LP, W("about"), Three, W("can"), RP>>,
    <<Two, W("large"), W("egg"), LP, Three, W("oz"), W("each"), RP, LP, W("optional"), RP>>,
    <<Num(IntStr(1)), W("half"), W("cup"), W("sugar")>>}

\* the fields of the running object (everything assigned on self)
Own ==
    [pc |-> pc, ingredient |-> ingredient,
     standardized_ingredient |-> standardized_ingredient,
     staged_ingredient |-> staged_ingredient,
     parenthesis_content |-> parenthesis_content,
     parenthesis_notes |-> parenthesis_notes, dimensions |-> dimensions,
     quantity |-> quantity, unit |-> unit, standardized_unit |-> standardized_unit,
     secondary_quantity |-> secondary_quantity, secondary_unit |-> secondary_unit,
     standardized_secondary_unit |-> standardized_secondary_unit,
     food |-> food, prep |-> prep, size_modifiers |-> size_modifiers,
     densities |-> densities, gram_weight |-> gram_weight, is_required |-> is_required,
     parsed_ingredient |-> parsed_ingredient, idx |-> idx, hist |-> hist]

\* the fields r become those of the running object
Load(r) ==
    /\ pc' = r.pc
    /\ ingredient' = r.ingredient
    /\ standardized_ingredient' = r.standardized_ingredient
    /\ staged_ingredient' = r.staged_ingredient
    /\ parenthesis_content' = r.parenthesis_content
    /\ parenthesis_notes' = r.parenthesis_notes
    /\ dimensions' = r.dimensions
    /\ quantity' = r.quantity /\ unit' = r.unit
    /\ standardized_unit' = r.standardized_unit
    /\ secondary_quantity' = r.secondary_quantity
    /\ secondary_unit' = r.secondary_unit
    /\ standardized_secondary_unit' = r.standardized_secondary_unit
    /\ food' = r.food /\ prep' = r.prep /\ size_modifiers' = r.size_modifiers
    /\ densities' = r.densities /\ gram_weight' = r.gram_weight
    /\ is_required' = r.is_required
    /\ parsed_ingredient' = r.parsed_ingredient
    /\ idx' = r.idx /\ hist' = r.hist

\* an __init__ that leaves the secondary fields as they are
init_keeping_secondary(t) ==
    [NotConstructed EXCEPT !.pc = "_drop_special_dashes", !.ingredient = t,
                           !.standardized_ingredient = t,
                           !.secondary_quantity = secondary_quantity,
                           !.secondary_unit = secondary_unit]

\* __init__ up to the call of _parse: every field is assigned on self
init(t) ==
    [NotConstructed EXCEPT !.pc = "_drop_special_dashes", !.ingredient = t,
                           !.standardized_ingredient = t]

\* IngredientSlicer(t): a new object, first or after an earlier parse has
\* returned or raised
Construct ==
    /\ pc \in {"idle", "done", "called", "raised", "to_json_raised"}
    /\ warnings < MaxWarnings
    /\ \E t \in PairInputs : Load(init(t))
    /\ UNCHANGED <<other, warnings>>

\* the scheduler runs the other parse: any interleaving of the steps
Switch ==
    /\ Load(other)
    /\ other' = Own
    /\ UNCHANGED warnings

InitPair ==
    /\ ingredient \in PairInputs
    /\ standardized_ingredient = ingredient
    /\ pc = "_drop_special_dashes"
    /\ food = <<None>>
    /\ quantity = NoneQ /\ unit = None /\ standardized_unit = None
    /\ secondary_quantity = NoneQ /\ secondary_unit = None
    /\ standardized_secondary_unit = None
    /\ densities = {}
    /\ gram_weight = NoGram
    /\ prep = <<>> /\ size_modifiers = <<>> /\ dimensions = <<>>
    /\ is_required = TRUE
    /\ staged_ingredient = <<Str(None)>>
    /\ parenthesis_content = <<>>
    /\ parenthesis_notes = <<>>
    /\ parsed_ingredient = <<>>
    /\ warnings = 0
    /\ idx = 0
    /\ hist = NoHist
    /\ other = NotConstructed

Next ==
    \/ DropSpecialDashes
    \/ FindAndRemovePercentages
    \/ ReplaceNumberFollowedByInchSymbol
    \/ FindAndReplaceCasualQuantities
    \/ FindAndReplacePrefixedNumberWords
    \/ FindAndReplaceNumberWords
    \/ FindAndReplaceFractionWords
    \/ CleanHtmlAndUnicode
    \/ ReplaceUnicodeFractionSlashes
    \/ ReplaceEmojis
    \/ ConvertFractionsToDecimals
    \/ ForceWsBetweenNumbersAndChars
    \/ RemoveRepeatUnitsInRanges
    \/ SeparateDimensions
    \/ RemoveXSeparators
    \/ CleanHyphenPaddedSubstrings
    \/ MergeMultiNums
    \/ FixRanges
    \/ FindAndReplaceNumbersSeparatedByAddNumbers
    \/ ReplaceAOrAnQuantities
    \/ AverageRanges
    \/ SeparateParenthesis
    \/ RemoveExtraWhitespaces
    \/ IsIngredientRequired
    \/ ExtractFirstQuantityUnit
    \/ AddressQuantityOnlyParenthesis
    \/ AddressEquivalenceParenthesis
    \/ AddressQuantityUnitOnlyParenthesis
    \/ AddStandardUnits
    \/ PrioritizeWeightUnits
    \/ ExtractFoods
    \/ ExtractPrepWords
    \/ ExtractSizeModifiers
    \/ AddFoodDensity
    \/ AddGramWeights
    \/ AddGramWeightsForSingleItemFoods
    \/ GetFoodUnits
    \/ SetDefaultQuantities
    \/ GetAnimalProteinGramWeight
    \/ ToJson
    \/ CallExtractFirstQuantityUnit

Spec == Init /\ [][Next]_vars

NextPair ==
    \/ Next
    \/ Construct
    \/ Switch

\* two objects parsed by two threads
SpecPair == InitPair /\ [][NextPair]_vars

----------------------------------------------------------------------------
(* Properties                                                              *)

\* the stages of _parse after the extractor, and after unit standardization
PostStages == {"_prioritize_weight_units", "_extract_foods", "_extract_prep_words",
               "_extract_size_modifiers", "_add_food_density", "_add_gram_weights",
               "_add_gram_weights_for_single_item_foods", "_get_food_units",
               "_set_default_quantities", "_get_animal_protein_gram_weight",
               "to_json", "done", "to_json_raised"}
ResolverStages == {"_address_quantity_only_parenthesis", "_address_equivalence_parenthesis",
                   "_address_quantity_unit_only_parenthesis", "_add_standard_units"}

\* the line starts with two numbers a and b separated by whitespace, and the
\* merge pass has just run
LeadingPairMerged ==
    /\ pc = "_fix_ranges"
    /\ Len(ingredient) >= 2
    /\ IsNum(ingredient[1]) /\ IsNum(ingredient[2])

\* C1: two whitespace-adjacent numbers (a, b) are merged into a + b when
\* b < 1 and into a * b when b >= 1, written as an integer when integral;
\* the comparison is strict, so merge(a, 1) = a.
C1_MultiNumberMerge ==
    LeadingPairMerged =>
        LET a == Float(ingredient[1].q)
            b == Float(ingredient[2].q)
            merged == standardized_ingredient[1]
            value == IF b[1] < b[2] THEN Rat(a[1] * b[2] + b[1] * a[2], a[2] * b[2])
                     ELSE Rat(a[1] * b[1], a[2] * b[2])
        IN /\ IsNum(merged)
           /\ <<merged.q[1], merged.q[2]>> = value
           /\ merged.q[3] = (IF value[2] = 1 THEN 0 ELSE 1)
           /\ (b = <<1, 1>> => <<merged.q[1], merged.q[2]>> = a)

\* "2 1 ..." has been merged into "2 ..."
C1_Witness ==
    /\ LeadingPairMerged
    /\ ingredient[1] = Two /\ ingredient[2] = Num(IntStr(1))
    /\ standardized_ingredient[1] = Two

\* C2: for every parenthetical and every state the resolver meets it in, at
\* most one of the three handlers (quantity-only, equivalence, bare pair)
\* changes quantity, unit, secondary_quantity or secondary_unit.
C2_RuleExclusivity == Cardinality(hist.changed) <= 1

\* all three handlers have run on "(about 3 oz)" and only the equivalence
\* handler changed a field
C2_Witness ==
    /\ hist.handler = "_address_quantity_unit_only_parenthesis"
    /\ hist.paren = <<LP, W("about"), Three, W("oz"), RP>>
    /\ hist.changed = {"_address_equivalence_parenthesis"}

Primary == Triple(quantity, unit, standardized_unit)
Secondary == Triple(secondary_quantity, secondary_unit, standardized_secondary_unit)
\* the swap's precondition on the triples the resolver and the unit
\* standardization left
SwapDue == hist.resolved[1].u \notin WEIGHT_UNITS_SET /\ hist.resolved[2].u \in WEIGHT_UNITS_SET
Defaulted(t) == [t EXCEPT !.q = IF t.q = NoneQ THEN IntStr(1) ELSE t.q]

\* C3 as stated: when the primary unit is not a weight unit and the secondary
\* unit is, the final record has the two triples (quantity, unit,
\* standardized unit) exchanged; when the primary unit is a weight unit the
\* final record has the units and the secondary triple as they were.
C3_AsStated ==
    pc = "done" =>
        /\ SwapDue => Primary = hist.resolved[2] /\ Secondary = hist.resolved[1]
        /\ hist.resolved[1].u \in WEIGHT_UNITS_SET =>
               /\ unit = hist.resolved[1].u
               /\ standardized_unit = hist.resolved[1].std
               /\ Secondary = hist.resolved[2]

\* C3: when the primary unit is not a weight unit and the secondary unit is,
\* the final record has unit and standardized unit exchanged with their
\* secondary counterparts, the secondary quantity is the former quantity and
\* the quantity is the former secondary quantity, or "1" when that was
\* unset; when the primary unit is a weight unit nothing is exchanged, and
\* the quantity is as it was, or "1" when it was unset.
C3_WeightPrioritySwap ==
    pc = "done" =>
        /\ SwapDue => Primary = Defaulted(hist.resolved[2]) /\ Secondary = hist.resolved[1]
        /\ hist.resolved[1].u \in WEIGHT_UNITS_SET =>
               Primary = Defaulted(hist.resolved[1]) /\ Secondary = hist.resolved[2]

\* a final record after a swap that brought an unset quantity to the front
C3_Witness ==
    /\ pc = "done"
    /\ SwapDue
    /\ TruthyU(hist.resolved[1].u)
    /\ hist.resolved[2].q = NoneQ
    /\ quantity = IntStr(1)
    /\ unit = hist.resolved[2].u
    /\ secondary_unit = hist.resolved[1].u

InCanonicalTable(u) == TruthyU(u) /\ u \in UNIT_TO_STANDARD_UNIT_KEYS

\* C4 as stated: after every post-processing stage, standardized_unit is set
\* if and only if unit is non-empty and in the canonical-unit alias table,
\* and then it is the alias's canonical name.
C4_AsStated ==
    pc \in PostStages =>
        /\ TruthyU(standardized_unit) <=> InCanonicalTable(unit)
        /\ InCanonicalTable(unit) => standardized_unit = UNIT_TO_STANDARD_UNIT(unit)

\* C4: after every post-processing stage, standardized_unit is the canonical
\* name of unit when unit is in the canonical-unit alias table, the food-unit
\* table's name of unit when unit is not in the alias table but in the
\* food-unit table (the food-unit fallback supplied it), and unset otherwise.
C4_StandardizedUnit ==
    pc \in PostStages =>
        standardized_unit =
            IF InCanonicalTable(unit) THEN UNIT_TO_STANDARD_UNIT(unit)
            ELSE IF unit \in DOMAIN FOOD_UNIT_TO_STANDARD_FOOD_UNIT
            THEN FOOD_UNIT_TO_STANDARD_FOOD_UNIT[unit]
            ELSE None

\* a final record whose unit came from the food-unit fallback
C4_Witness ==
    /\ pc = "done"
    /\ hist.swapped[1].u = None
    /\ unit = "tortillas"
    /\ standardized_unit = "tortilla"

\* C5 as stated: no stage that runs after a gram-weight computation changes
\* quantity, unit or standardized_unit.
C5_AsStated ==
    [][hist.gram_runs > 0 => UNCHANGED <<quantity, unit, standardized_unit>>]_vars

WeightOrVolume == WEIGHT_UNITS_SET \cup VOLUME_UNITS_SET

\* C6: in every final record whose standardized unit is a weight or volume
\* unit, quantity is set: it is "1" when none had been resolved (none was
\* left by the resolver and the swap), and the resolved quantity otherwise.
C6_DefaultQuantity ==
    (pc = "done" /\ standardized_unit \in WeightOrVolume) =>
        /\ quantity # NoneQ
        /\ quantity = IF hist.swapped[1].q = NoneQ THEN IntStr(1) ELSE hist.swapped[1].q

\* a final record with a volume unit whose quantity is the default
C6_Witness ==
    /\ pc = "done"
    /\ standardized_unit \in VOLUME_UNITS_SET
    /\ hist.swapped[1].q = NoneQ
    /\ quantity = IntStr(1)

\* the rule of the flag on one text: required if a required-marker is
\* present, else optional if an optional-marker is present, else required
RequiredByRule(t) ==
    IF \E i \in DOMAIN t : IsStr(t[i]) /\ t[i].s \in required_set THEN TRUE
    ELSE IF \E i \in DOMAIN t : IsStr(t[i]) /\ t[i].s \in optional_set THEN FALSE
    ELSE TRUE

\* C7 as stated: is_required is the AND of the rule on the parenthesis-free
\* text and of the rule on every parenthetical, each on its own.
C7_AsStated ==
    pc = "done" =>
        is_required = (/\ RequiredByRule(standardized_ingredient)
                       /\ \A j \in DOMAIN parenthesis_content :
                              RequiredByRule(parenthesis_content[j]))

\* C7: is_required is the AND of the rule on the parenthesis-free text and of
\* the rule on all the parentheticals taken together: a required marker in
\* any parenthetical outweighs an optional marker in any other, and an
\* input with no markers is required.
C7_RequiredFlag ==
    pc = "done" =>
        is_required = (/\ RequiredByRule(standardized_ingredient)
                       /\ RequiredByRule(Flatten(parenthesis_content)))

\* a final record of a line with "(optional)" and "(required)": required
C7_Witness ==
    /\ pc = "done"
    /\ parenthesis_content = <<<<LP, W("optional"), RP>>, <<LP, W("required"), RP>>>>
    /\ RequiredByRule(standardized_ingredient)
    /\ is_required

\* the bare-pair handler has just run on "(n v)", v a basic unit, with
\* quantity and unit set and the unit not basic
BarePairTieBreak ==
    /\ pc \in {"_address_quantity_only_parenthesis", "_add_standard_units"}
    /\ hist.handler = "_address_quantity_unit_only_parenthesis"
    /\ Len(hist.paren) = 4
    /\ IsNum(hist.paren[2])
    /\ IsStr(hist.paren[3]) /\ hist.paren[3].s \in BASIC_UNITS_SET
    /\ TruthyQ(hist.before.q) /\ TruthyU(hist.before.u)
    /\ hist.before.u \notin BASIC_UNITS_SET

\* C8: when quantity q and unit u are set, u is not a basic unit, and a
\* bare-pair parenthetical (n, v) has a basic unit v, the handler leaves
\* secondary_quantity = q, secondary_unit = u, quantity = q * n, unit = v.
C8_BarePairTieBreak ==
    BarePairTieBreak =>
        LET q == Float(hist.before.q)
            n == Float(hist.paren[2].q)
        IN /\ secondary_quantity = hist.before.q
           /\ secondary_unit = hist.before.u
           /\ quantity # NoneQ
           /\ <<quantity[1], quantity[2]>> = Rat(q[1] * n[1], q[2] * n[2])
           /\ unit = hist.paren[3].s

\* (2, can) met "(3 oz)": 6 oz, secondary 2 can
C8_Witness ==
    /\ BarePairTieBreak
    /\ hist.before.q = IntStr(2) /\ hist.before.u = "can"
    /\ hist.paren = <<LP, Three, W("oz"), RP>>
    /\ quantity = IntStr(6) /\ unit = "oz"
    /\ secondary_quantity = IntStr(2) /\ secondary_unit = "can"

\* the positions of the text where a number is followed by a unit of S
PairsAt(S) ==
    {i \in 1..(Len(standardized_ingredient) - 1) :
        /\ IsNum(standardized_ingredient[i])
        /\ IsStr(standardized_ingredient[i + 1])
        /\ standardized_ingredient[i + 1].s \in S}
NumbersAt == {i \in DOMAIN standardized_ingredient : IsNum(standardized_ingredient[i])}
UnitsAt == {i \in DOMAIN standardized_ingredient :
               IsStr(standardized_ingredient[i]) /\ standardized_ingredient[i].s \in UNITS_SET}
Least(S) == CHOOSE i \in S : \A j \in S : i <= j
PairAt(i) == <<standardized_ingredient[i].q, standardized_ingredient[i + 1].s>>

\* C9: the extractor returns the first number followed by a basic unit if
\* there is one, even when a number followed by a non-basic unit comes
\* earlier; otherwise the first number followed by a non-basic unit;
\* otherwise the first number anywhere and the first unit anywhere, each
\* unset when there is none.
C9_TieredExtraction ==
    pc \in ResolverStages \cup PostStages =>
        hist.extracted =
            IF PairsAt(BASIC_UNITS_SET) # {} THEN PairAt(Least(PairsAt(BASIC_UNITS_SET)))
            ELSE IF PairsAt(UNITS_SET \ BASIC_UNITS_SET) # {}
            THEN PairAt(Least(PairsAt(UNITS_SET \ BASIC_UNITS_SET)))
            ELSE <<IF NumbersAt # {} THEN standardized_ingredient[Least(NumbersAt)].q
                   ELSE NoneQ,
                   IF UnitsAt # {} THEN standardized_ingredient[Least(UnitsAt)].s
                   ELSE None>>

\* "2 can 2 cup": the basic pair (2, cup) wins over the earlier (2, can)
C9_Witness ==
    /\ pc = "_add_standard_units"
    /\ standardized_ingredient = <<Two, W("can"), Two, W("cup")>>
    /\ hist.extracted = <<IntStr(2), "cup">>

\* C10 as stated: every stage completes for every input: no pass raises.
C10_AsStated == pc # "raised"

\* the lookups that find nothing for the final fields of the parse
DensityMiss == food \notin FoodDensityFoods
\* the density lookup ran (a volume unit among the four) and found nothing
DensityLookupMissed ==
    /\ has_volume_unit(unit, standardized_unit, secondary_unit, standardized_secondary_unit)
    /\ DensityMiss
GramWeightMiss ==
    /\ unit \notin WEIGHT_UNITS_SET
    /\ unit \notin VOLUME_UNITS_SET \/ DensityMiss
    /\ food \notin DirectWeightFoods \cup SingleItemFoods
    /\ unit \notin AnimalProteinUnits /\ secondary_unit \notin AnimalProteinUnits
UnitAliasMiss ==
    unit \notin UNIT_TO_STANDARD_UNIT_KEYS \cup DOMAIN FOOD_UNIT_TO_STANDARD_FOOD_UNIT

\* in a record that is built, the field of a missed lookup (density,
\* gram_weight, standardized_unit) is unset
MissedFieldsUnset ==
    pc = "done" =>
        /\ DensityMiss => parsed_ingredient.density = None
        /\ GramWeightMiss => parsed_ingredient.gram_weight = NoGram
        /\ UnitAliasMiss => parsed_ingredient.standardized_unit = None
\* the density lookup found nothing, gave None, and to_json raised on it
DensityMissRaised ==
    /\ pc = "to_json_raised"
    /\ DensityLookupMissed /\ densities = NoneDensities

\* C11 as stated: a lookup that finds nothing (density, gram weight, unit
\* alias) never raises: the record is still built, and the field of the
\* missed lookup (density, gram_weight, standardized_unit) is unset in it.
C11_AsStated == MissedFieldsUnset /\ ~DensityMissRaised

\* a list in lexicographic order with no word twice
SortedUnique(ws, rank) ==
    \A i, j \in DOMAIN ws : i < j => rank[ws[i]] < rank[ws[j]]

\* C12 as stated: in every final record prep and size_modifiers are both
\* deduplicated and sorted lexicographically.
C12_AsStated ==
    pc = "done" =>
        /\ SortedUnique(parsed_ingredient.prep, PrepRank)
        /\ SortedUnique(parsed_ingredient.size_modifiers, SizeRank)

\* the endpoints <<a, b>> of a line that is one range followed by one unit,
\* in any of the four forms; <<>> for any other line
RangeLine(t) ==
    IF /\ Len(t) = 4 /\ IsNum(t[1]) /\ IsNum(t[3])
       /\ IsStr(t[2]) /\ t[2].s \in {"-", "to", "or"}
       /\ IsStr(t[4]) /\ t[4].s \in UNITS_SET
    THEN <<Float(t[1].q), Float(t[3].q)>>
    ELSE IF /\ Len(t) = 5 /\ IsNum(t[2]) /\ IsNum(t[4])
            /\ IsStr(t[1]) /\ t[1].s = "between"
            /\ IsStr(t[3]) /\ t[3].s \in {"and", "&"}
            /\ IsStr(t[5]) /\ t[5].s \in UNITS_SET
    THEN <<Float(t[2].q), Float(t[4].q)>>
    ELSE <<>>

\* C13: a range "a - b", "between a and b", "a to b" or "a or b" is replaced
\* by one number, the arithmetic mean of a and b (a itself when a = b): it
\* is the one number of the normalized text and the quantity of the record.
C13_RangeAveraging ==
    (pc = "done" /\ RangeLine(ingredient) # <<>>) =>
        LET a == RangeLine(ingredient)[1]
            b == RangeLine(ingredient)[2]
            mean == Rat(a[1] * b[2] + b[1] * a[2], 2 * a[2] * b[2])
        IN /\ Len(standardized_ingredient) = 2
           /\ IsNum(standardized_ingredient[1])
           /\ standardized_ingredient[1].q = quantity
           /\ <<quantity[1], quantity[2]>> = mean
           /\ quantity[3] = (IF mean[2] = 1 THEN 0 ELSE 1)
           /\ (a = b => <<quantity[1], quantity[2]>> = a)

\* "between 1 and 5 cup" gives quantity 3
C13_Witness ==
    /\ pc = "done"
    /\ ingredient = <<W("between"), Num(IntStr(1)), W("and"), Num(IntStr(5)), W("cup")>>
    /\ quantity = IntStr(3)
    /\ unit = "cup"

\* C14: the Normalizer is idempotent: run on the text it has produced, the
\* pass sequence of _standardize gives that same text back.
C14_AsStated ==
    pc = "_is_ingredient_required" =>
        LET again == standardize(standardized_ingredient)
        IN ~again.raised /\ again.text = standardized_ingredient

SecondaryWriters == {"_address_quantity_only_parenthesis", "_address_equivalence_parenthesis",
                     "_address_quantity_unit_only_parenthesis", "_prioritize_weight_units"}

\* C15: secondary_quantity and secondary_unit are written only by a step of
\* the parenthesis resolver or by the weight-priority swap (never by a
\* normalizer pass or the extractor), and the record of a line without a
\* parenthetical has both unset.
C15_SecondaryFrame ==
    /\ []((pc = "done" /\ parenthesis_content = <<>>) =>
              /\ parsed_ingredient.secondary_quantity = NoneQ
              /\ parsed_ingredient.secondary_unit = None)
    /\ [][(secondary_quantity' # secondary_quantity \/ secondary_unit' # secondary_unit)
              => pc \in SecondaryWriters]_vars

\* a line without a parenthetical, quantity and a non-weight unit found
C15_Witness ==
    /\ pc = "done"
    /\ parenthesis_content = <<>>
    /\ parsed_ingredient.quantity # NoneQ
    /\ parsed_ingredient.unit \in UNITS_SET \ WEIGHT_UNITS_SET
    /\ parsed_ingredient.secondary_quantity = NoneQ
    /\ parsed_ingredient.secondary_unit = None

Returned(r) ==
    /\ r.pc = "done" => r.parsed_ingredient = parse(r.ingredient).record
    /\ r.pc = "raised" => parse(r.ingredient).raised
    /\ r.pc = "to_json_raised" => parse(r.ingredient).to_json_may_raise

\* C16: two parses interleaved in any way, and parses that follow earlier
\* ones, each end as the parse of their line alone does: with the record
\* that is a function of the line only, or raising where it raises, whatever
\* the other parse has done and however many warnings have been given (the
\* warnings are the one thing both parses write).
C16_Independence == Returned(Own) /\ Returned(other)

\* both objects parsed, different lines: the other one gave warnings for its
\* malformed number, the running one gave none and has a secondary quantity
C16_Witness ==
    /\ pc = "done" /\ other.pc = "done"
    /\ other.ingredient = <<Two, BadNum, W("cup"), W("sugar")>>
    /\ warnings > 0
    /\ merge_multi_nums(ingredient).warned = 0
    /\ parsed_ingredient.secondary_quantity # NoneQ
    /\ other.parsed_ingredient.secondary_quantity = NoneQ

\* a parenthetical that holds numbers and nothing else, and one that holds
\* numbers and approximation words, at least one of each
QuantityOnly(p) == Inner(p) # <<>> /\ \A i \in DOMAIN Inner(p) : IsNum(Inner(p)[i])
ApproximateQuantityOnly(p) ==
    /\ \A i \in DOMAIN Inner(p) :
           IsNum(Inner(p)[i]) \/ IsIn(Inner(p)[i], APPROXIMATE_STRINGS)
    /\ \E i \in DOMAIN Inner(p) : IsNum(Inner(p)[i])
    /\ \E i \in DOMAIN Inner(p) : IsIn(Inner(p)[i], APPROXIMATE_STRINGS)
\* the quantity-only handler has just run on the current parenthetical
AfterQuantityOnly == hist.handler = "_address_quantity_only_parenthesis"

\* C17: after the quantity-only handler has run on a parenthetical that holds
\* the number n and nothing else, the quantity is n when none was set and
\* the product q * n when q was set, with or without a unit, and the unit is
\* as it was.
C17_QuantityOnlyMerge ==
    (AfterQuantityOnly /\ QuantityOnly(hist.paren)) =>
        LET n == Float(Inner(hist.paren)[1].q)
            q == Float(hist.before.q)
        IN /\ unit = hist.before.u
           /\ quantity # NoneQ
           /\ Float(quantity) = (IF hist.before.q = NoneQ THEN n
                                 ELSE Rat(q[1] * n[1], q[2] * n[2]))

\* "2 cup (3)": quantity 6, unit cup
C17_Witness ==
    /\ AfterQuantityOnly /\ QuantityOnly(hist.paren)
    /\ hist.before.q = IntStr(2) /\ hist.before.u = "cup"
    /\ Inner(hist.paren)[1].q = IntStr(3)
    /\ quantity = IntStr(6) /\ unit = "cup"

\* C18 as stated: a quantity-only parenthetical writes secondary_quantity
\* (the old quantity) only when both quantity and unit were set; in the
\* other three rows secondary_quantity and secondary_unit are as they were.
C18_AsStated ==
    (AfterQuantityOnly /\ QuantityOnly(hist.paren)) =>
        /\ secondary_unit = hist.before.su
        /\ secondary_quantity =
               (IF hist.before.q # NoneQ /\ hist.before.u # None
                THEN hist.before.q ELSE hist.before.sq)

\* C18: a quantity-only parenthetical leaves secondary_unit as it was in
\* every row; secondary_quantity becomes the old quantity in every row but
\* "no quantity, no unit" (so the unset quantity in the row "no quantity,
\* unit"), where it is as it was.
C18_SecondaryQuantityRows ==
    (AfterQuantityOnly /\ QuantityOnly(hist.paren)) =>
        /\ secondary_unit = hist.before.su
        /\ secondary_quantity =
               (IF hist.before.q = NoneQ /\ hist.before.u = None
                THEN hist.before.sq ELSE hist.before.q)

\* "2 (3)": quantity set, no unit; the old quantity 2 is the secondary one
C18_Witness ==
    /\ AfterQuantityOnly /\ QuantityOnly(hist.paren)
    /\ hist.before.q = IntStr(2) /\ hist.before.u = None
    /\ hist.before.sq = NoneQ
    /\ secondary_quantity = IntStr(2)
    /\ quantity = Multiplied(IntStr(2), Inner(hist.paren)[1].q)

\* the resolver has run its three handlers on the current parenthetical
AfterParenthesis ==
    /\ hist.handler = "_address_quantity_unit_only_parenthesis"
    /\ pc \in {"_address_quantity_only_parenthesis", "_add_standard_units"}

\* C19: once the resolver is through with a parenthetical that holds a
\* number and an approximation word and nothing else, quantity, unit,
\* secondary_quantity and secondary_unit are what they were when it came to
\* that parenthetical.
C19_ApproximateQuantityOnly ==
    (AfterParenthesis /\ ApproximateQuantityOnly(hist.paren)) => Fields = hist.entry

\* "2 cup (about 3)": still 2 cup, nothing secondary
C19_Witness ==
    /\ AfterParenthesis /\ ApproximateQuantityOnly(hist.paren)
    /\ hist.entry.q = IntStr(2) /\ hist.entry.u = "cup"
    /\ quantity = IntStr(2) /\ unit = "cup"
    /\ secondary_quantity = NoneQ /\ secondary_unit = None

\* a parenthetical with "<equivalence word> <number> <unit>" in it, and one
\* with a per-unit word in it
EquivalenceForm(p) ==
    \E i \in 1..(Len(Inner(p)) - 2) :
        /\ IsIn(Inner(p)[i], APPROXIMATE_STRINGS)
        /\ IsNum(Inner(p)[i + 1])
        /\ IsIn(Inner(p)[i + 2], UNITS_SET)
\* a word of p is a string of QUANTITY_PER_UNIT_STRINGS: the test of the
\* equivalence handler, which a string of two words never passes
PerUnit(p) == \E i \in DOMAIN Inner(p) : IsIn(Inner(p)[i], QUANTITY_PER_UNIT_STRINGS)
\* the words of a string of QUANTITY_PER_UNIT_STRINGS stand in p one after
\* the other
PerUnitPhrase(p) ==
    \E e \in QUANTITY_PER_UNIT_STRINGS :
        \E i \in 0..(Len(Inner(p)) - Len(PerUnitWords[e])) :
            \A j \in DOMAIN PerUnitWords[e] : IsIn(Inner(p)[i + j], {PerUnitWords[e][j]})
\* the parentheticals of the line as it was given
GivenParenthesis == split_by_parenthesis(ingredient).parens

\* once the resolver is through with an equivalence-form parenthetical one
\* of whose words is "each", "per" or "apiece" (so also "per each"),
\* quantity, unit, secondary_quantity and secondary_unit are what they were
\* when it came to that parenthetical
PerUnitWordDisqualified ==
    (AfterParenthesis /\ EquivalenceForm(hist.paren) /\ PerUnit(hist.paren))
        => Fields = hist.entry

\* C20 as stated: once the resolver is through with an equivalence-form
\* parenthetical that holds a per-unit phrase (any string of
\* QUANTITY_PER_UNIT_STRINGS: "each", "per", "apiece", "a piece", "per each"),
\* quantity, unit, secondary_quantity and secondary_unit are what they were
\* when it came to that parenthetical.
C20_AsStated ==
    (/\ AfterParenthesis /\ EquivalenceForm(hist.paren)
     /\ Len(GivenParenthesis) = 1 /\ PerUnitPhrase(GivenParenthesis[1]))
        => Fields = hist.entry

\* the equivalence handler has just run on the current parenthetical
AfterEquivalence == hist.handler = "_address_equivalence_parenthesis"
\* where the first "<equivalence word> <number> <unit>" of p starts
EquivalenceAt(p) ==
    CHOOSE i \in 1..(Len(Inner(p)) - 2) :
        /\ IsIn(Inner(p)[i], APPROXIMATE_STRINGS) /\ IsNum(Inner(p)[i + 1])
        /\ IsIn(Inner(p)[i + 2], UNITS_SET)
        /\ \A j \in 1..(i - 1) :
               ~(/\ IsIn(Inner(p)[j], APPROXIMATE_STRINGS) /\ IsNum(Inner(p)[j + 1])
                 /\ IsIn(Inner(p)[j + 2], UNITS_SET))
EquivalenceQuantity(p) == Inner(p)[EquivalenceAt(p) + 1].q
EquivalenceUnit(p) == Inner(p)[EquivalenceAt(p) + 2].s
\* the equivalence handler has just applied its merge to the parenthetical
EquivalenceApplied ==
    AfterEquivalence /\ EquivalenceForm(hist.paren) /\ ~PerUnit(hist.paren)

\* C21: an equivalence parenthetical (n, v) without per-unit word, met with
\* quantity or unit unset, becomes the primary pair; the old quantity goes
\* to secondary_quantity in the row "quantity, no unit", the old unit to
\* secondary_unit in the row "no quantity, unit", and no other secondary
\* field is written.
C21_EquivalenceIncomplete ==
    (EquivalenceApplied /\ (hist.before.q = NoneQ \/ hist.before.u = None)) =>
        /\ quantity = EquivalenceQuantity(hist.paren)
        /\ unit = EquivalenceUnit(hist.paren)
        /\ secondary_quantity =
               (IF hist.before.q # NoneQ THEN hist.before.q ELSE hist.before.sq)
        /\ secondary_unit =
               (IF hist.before.u # None THEN hist.before.u ELSE hist.before.su)

\* "2 sugar (about 3 oz)": 3 oz, and 2 as the secondary quantity
C21_Witness ==
    /\ EquivalenceApplied
    /\ hist.before.q = IntStr(2) /\ hist.before.u = None
    /\ quantity = IntStr(3) /\ unit = "oz"
    /\ secondary_quantity = IntStr(2) /\ secondary_unit = None

\* the note the equivalence handler's last, unconditional branch appends
FallThroughNote == "used quantity/units from parenthesis with equivalent quantity/units"

\* C22: an equivalence parenthetical (n, v) met with quantity and unit both
\* set replaces the primary pair only when v is basic and the unit is not
\* (the old pair becomes the secondary one); in the other three cases the
\* primary pair stays and (n, v) becomes the secondary pair. The handler's
\* last branch is never taken.
C22_EquivalenceTieBreak ==
    /\ (EquivalenceApplied /\ hist.before.q # NoneQ /\ hist.before.u # None) =>
           LET n == EquivalenceQuantity(hist.paren)
               v == EquivalenceUnit(hist.paren)
           IN IF v \in BASIC_UNITS_SET /\ hist.before.u \notin BASIC_UNITS_SET
              THEN /\ quantity = n /\ unit = v
                   /\ secondary_quantity = hist.before.q
                   /\ secondary_unit = hist.before.u
              ELSE /\ quantity = hist.before.q /\ unit = hist.before.u
                   /\ secondary_quantity = n /\ secondary_unit = v
    /\ AfterEquivalence => parenthesis_notes[Len(parenthesis_notes)] # FallThroughNote

\* "2 can (about 3 oz)": the basic pair 3 oz in front, 2 can behind
C22_Witness ==
    /\ EquivalenceApplied
    /\ hist.before.q = IntStr(2) /\ hist.before.u = "can"
    /\ quantity = IntStr(3) /\ unit = "oz"
    /\ secondary_quantity = IntStr(2) /\ secondary_unit = "can"

\* the resolver is at a parenthetical, with the fields as they are
AtResolver == pc \in {"_address_quantity_only_parenthesis",
                      "_address_equivalence_parenthesis",
                      "_address_quantity_unit_only_parenthesis"}
\* the pairs (n, v) the two merges are compared on
MergeNumbers == {Num(DecStr(1, 2)), Two, Three}
MergeUnits == {"oz", "cup", "can", "breasts"}
\* what the equivalence merge and the bare-pair merge make of the fields f
\* and the pair (n, v)
EquivalenceMerge(f, n, v) ==
    Core(address_equivalence_parenthesis(f, <<LP, W("about"), n, W(v), RP>>))
BarePairMerge(f, n, v) ==
    Core(address_quantity_unit_only_parenthesis(f, <<LP, n, W(v), RP>>))
\* the two rows in which the tables differ
MergesMayDiffer(f, v) ==
    \/ f.q # NoneQ /\ f.u = None
    \/ f.q # NoneQ /\ f.u # None /\ v \in BASIC_UNITS_SET /\ f.u \notin BASIC_UNITS_SET

\* C23: on the fields the resolver can meet and any pair (n, v), the
\* bare-pair merge and the equivalence merge give the same four fields,
\* except in the row "quantity, no unit" and in the case "both set, v basic,
\* unit not", where the bare pair multiplies the quantity by n.
C23_BarePairFollowsEquivalence ==
    AtResolver =>
        \A n \in MergeNumbers, v \in MergeUnits :
            IF MergesMayDiffer(Fields, v)
            THEN /\ BarePairMerge(Fields, n, v).q = Multiplied(quantity, n.q)
                 /\ BarePairMerge(Fields, n, v).u = v
                 /\ EquivalenceMerge(Fields, n, v).q = n.q
            ELSE BarePairMerge(Fields, n, v) = EquivalenceMerge(Fields, n, v)

\* the resolver at a second parenthetical, 2 cup in front and a secondary
\* pair behind, where both merges of (3, can) keep 2 cup
C23_Witness ==
    /\ AtResolver
    /\ quantity = IntStr(2) /\ unit = "cup" /\ secondary_quantity # NoneQ
    /\ BarePairMerge(Fields, Three, "can") = EquivalenceMerge(Fields, Three, "can")
    /\ BarePairMerge(Fields, Three, "can").q = IntStr(2)
    /\ BarePairMerge(Fields, Three, "can").sq = IntStr(3)

\* the method list of _standardize from the merge of spaced numbers on, and
\* what follows it
LastPasses == <<"_merge_multi_nums", "_fix_ranges",
                "_find_and_replace_numbers_separated_by_add_numbers",
                "_replace_a_or_an_quantities", "_average_ranges",
                "_separate_parenthesis", "_remove_extra_whitespaces",
                "_is_ingredient_required">>
\* the text has a range "a - b" in it
HasRange(t) ==
    \E i \in 1..(Len(t) - 2) : IsNum(t[i]) /\ IsWord(t[i + 1], "-") /\ IsNum(t[i + 2])

\* C24 as stated: every range is averaged to a scalar before the sums of
\* pairs joined by and/&/plus/+ and before a/an is replaced: no range is
\* left in the text when these two passes run.
C24_AsStated ==
    pc \in {"_find_and_replace_numbers_separated_by_add_numbers",
            "_replace_a_or_an_quantities"} => ~HasRange(standardized_ingredient)

\* C24: the last passes run in the order range normalization (with the
\* collapse of equal-ended ranges), sums, a/an, averaging, parenthesis split,
\* whitespace collapse: a range with different ends is in canonical form but
\* not averaged while the sums and a/an run, and is one number after the
\* averaging pass.
C24_PassOrder ==
    /\ [][\A i \in 1..(Len(LastPasses) - 1) :
              pc = LastPasses[i] => pc' = LastPasses[i + 1]]_vars
    /\ [](RangeLine(ingredient) # <<>> =>
            LET a == RangeLine(ingredient)[1]
                b == RangeLine(ingredient)[2]
            IN /\ pc \in {"_find_and_replace_numbers_separated_by_add_numbers",
                          "_replace_a_or_an_quantities", "_average_ranges"} =>
                     IF a = b THEN ~HasRange(standardized_ingredient)
                     ELSE /\ Len(standardized_ingredient) = 4
                          /\ HasRange(standardized_ingredient)
                          /\ Float(standardized_ingredient[1].q) = a
                          /\ Float(standardized_ingredient[3].q) = b
               /\ pc \in {"_separate_parenthesis", "_remove_extra_whitespaces"} =>
                     ~HasRange(standardized_ingredient))

\* "between 1 and 5 cup" is "1 - 5 cup" when the averaging pass is to run
C24_Witness ==
    /\ pc = "_average_ranges"
    /\ ingredient = <<W("between"), Num(IntStr(1)), W("and"), Num(IntStr(5)), W("cup")>>
    /\ standardized_ingredient = <<Num(IntStr(1)), W("-"), Num(IntStr(5)), W("cup")>>

\* C25: no step changes the raw text; the staged text changes only at the
\* parenthesis split, to the normalized text as it was before the split
\* (parentheticals still in it), keeps that value to the end, and it is the
\* text the prep words and size modifiers are taken from.
C25_RawAndStagedText ==
    /\ [][ingredient' = ingredient]_vars
    /\ [][IF pc = "_separate_parenthesis"
          THEN staged_ingredient' = standardized_ingredient
          ELSE staged_ingredient' = staged_ingredient]_vars
    /\ [](pc = "done" =>
            /\ parsed_ingredient.ingredient = ingredient
            /\ parsed_ingredient.prep = extract_prep_words(staged_ingredient)
            /\ parsed_ingredient.size_modifiers = extract_size_modifiers(staged_ingredient))

\* "2 cup sugar (about 3 oz)": parsed, the staged text still with the
\* parenthetical that the normalized text has lost
C25_Witness ==
    /\ pc = "done"
    /\ parenthesis_content = <<<<LP, W("about"), Three, W("oz"), RP>>>>
    /\ standardized_ingredient = <<Two, W("cup"), W("sugar")>>
    /\ staged_ingredient = <<Two, W("cup"), W("sugar"), LP, W("about"), Three, W("oz"), RP>>

(* ---------------------------------------------------------------------- *)
(* C26. The "is basic", "is weight" and "is volume" sets are subsets of   *)
(* the alias table: every string of BASIC_UNITS_SET, WEIGHT_UNITS_SET and *)
(* VOLUME_UNITS_SET is in UNITS_SET, and every alias that UNITS lists     *)
(* under a basic canonical unit is in BASIC_UNITS_SET, so that            *)
(* BASIC_UNITS_SET and NON_BASIC_UNITS_SET partition UNITS_SET.           *)
(* The tables of the source do not have this property: the teaspoon row   *)
(* of BASIC_UNITS holds the single string "tspn.tspns." where UNITS has   *)
(* the two aliases "tspn." and "tspns.", and the teaspoon row of          *)
(* VOLUME_UNITS holds "tsp.", which UNITS does not list. A line whose     *)
(* unit is "tspn." therefore has a teaspoon unit that is not basic.       *)
(* ---------------------------------------------------------------------- *)
BasicAliases == UNION {UNITS[key] : key \in DOMAIN UNITS \cap DOMAIN BASIC_UNITS}

C26_AsStated ==
    /\ BASIC_UNITS_SET \subseteq UNITS_SET
    /\ WEIGHT_UNITS_SET \subseteq UNITS_SET
    /\ VOLUME_UNITS_SET \subseteq UNITS_SET
    /\ BasicAliases \subseteq BASIC_UNITS_SET
    /\ BASIC_UNITS_SET \cup NON_BASIC_UNITS_SET = UNITS_SET
    /\ (pc = "done" /\ unit \in BasicAliases) => unit \in BASIC_UNITS_SET

(* ---------------------------------------------------------------------- *)
(* C27. The resolver never unsets a primary field: in every step of the   *)
(* loop over the parenthetical substrings, whichever of the three         *)
(* handlers takes it, a quantity that is set before the step is set after *)
(* it, a unit that is set before the step is set after it, and a step     *)
(* that changes any of the four fields leaves the primary quantity set.   *)
(* ---------------------------------------------------------------------- *)
ResolverStep ==
    /\ AtResolver
    /\ (quantity # NoneQ => quantity' # NoneQ)
    /\ (unit # None => unit' # None)
    /\ (Fields' # Fields => quantity' # NoneQ)

C27_PrimaryNeverUnset == [][AtResolver => ResolverStep]_vars

\* a handler has just filled an empty quantity beside a unit that was set,
\* in the second parenthetical of a line
C27_Witness ==
    /\ pc \in ResolverStages /\ hist.handler \in ResolverStages
    /\ idx = 2
    /\ hist.before # Fields
    /\ hist.before.q = NoneQ /\ hist.before.u # None
    /\ quantity # NoneQ /\ unit # None

(* ---------------------------------------------------------------------- *)
(* C28. A basic primary unit is stable under the resolver: in a handler   *)
(* step taken with the quantity set and a unit of BASIC_UNITS_SET, the    *)
(* primary unit does not change, whatever the family of the parenthetical,*)
(* and the primary quantity either does not change or becomes its product *)
(* with the number of a quantity-only parenthetical, in the first handler.*)
(* Since the fields stay set and the unit stays the same, the same holds  *)
(* for every later parenthetical of the line.                             *)
(* ---------------------------------------------------------------------- *)
BasicPrimary == quantity # NoneQ /\ unit \in BASIC_UNITS_SET

MultipliedByParenthesis ==
    /\ pc = "_address_quantity_only_parenthesis"
    /\ QuantityOnly(Current)
    /\ quantity' = Multiplied(quantity, extract_quantities_only(Current)[1])

C28_BasicUnitStable ==
    [][(AtResolver /\ BasicPrimary) =>
          /\ unit' = unit
          /\ BasicPrimary'
          /\ (quantity' = quantity \/ MultipliedByParenthesis)]_vars

\* a line with a quantity and a basic unit has been through a bare pair or
\* an equivalence with another unit and through a multiplication, and its
\* unit is the one it started with
C28_Witness ==
    /\ pc = "_add_standard_units"
    /\ idx = 2
    /\ hist.extracted[2] \in BASIC_UNITS_SET /\ hist.extracted[1] # NoneQ
    /\ unit = hist.extracted[2]
    /\ quantity # hist.extracted[1]
    /\ secondary_unit \notin {None, unit}

(* ---------------------------------------------------------------------- *)
(* C29. A secondary unit never exists without a primary unit: in every    *)
(* state of a parse, so after each handler of the resolver and after the  *)
(* weight-priority swap, secondary_unit set implies unit set, and the     *)
(* same holds of the two fields of the final record, which the object     *)
(* keeps. (A later call of the public extract_first_quantity_unit assigns *)
(* the primary fields again and is not a step of the parse.)              *)
(* ---------------------------------------------------------------------- *)
C29_SecondaryUnitNeedsUnit ==
    /\ pc # "called" => (secondary_unit # None => unit # None)
    /\ pc \in {"done", "called"} =>
          (parsed_ingredient.secondary_unit # None => parsed_ingredient.unit # None)

\* a final record with both units, whose pairs the swap has exchanged
C29_Witness ==
    /\ pc = "done"
    /\ parsed_ingredient.secondary_unit # None
    /\ parsed_ingredient.unit # None
    /\ hist.swapped = <<hist.resolved[2], hist.resolved[1]>>
    /\ hist.swapped # hist.resolved

(* ---------------------------------------------------------------------- *)
(* C30. Gram-weight precedence: the estimate stages run in the order      *)
(* density or direct lookup, per-item average, animal-protein cut table;  *)
(* a gram weight that is not empty is never changed by a later step, so   *)
(* each estimate in the record comes from the first stage that found one; *)
(* the animal-protein table is consulted only when gram_weight is still   *)
(* empty, and then gives the estimate of the primary (quantity, unit) if  *)
(* there is one and otherwise that of the secondary pair.                 *)
(* ---------------------------------------------------------------------- *)
GramOrder == <<"_add_food_density", "_add_gram_weights",
               "_add_gram_weights_for_single_item_foods", "_get_food_units",
               "_set_default_quantities", "_get_animal_protein_gram_weight", "to_json">>

\* the estimates each stage can produce
StageEstimates ==
    ("_add_gram_weights" :> {"weight", "density", "direct"}) @@
    ("_add_gram_weights_for_single_item_foods" :> {"single"}) @@
    ("_get_animal_protein_gram_weight" :> {"protein"})

AnimalProteinStep ==
    LET primary == animal_protein_gram_weight(quantity, unit)
        secondary == animal_protein_gram_weight(secondary_quantity, secondary_unit)
    IN /\ hist'.gram_runs # hist.gram_runs <=> gram_weight = NoGram
       /\ gram_weight = NoGram =>
             gram_weight' = IF primary # NoGram THEN primary ELSE secondary

C30_GramWeightPrecedence ==
    /\ [][\A i \in 1..(Len(GramOrder) - 1) : pc = GramOrder[i] => pc' = GramOrder[i + 1]]_vars
    /\ [][gram_weight # NoGram => gram_weight' = gram_weight]_vars
    /\ [][gram_weight' # gram_weight =>
             /\ pc \in DOMAIN StageEstimates
             /\ gram_weight'.by \in StageEstimates[pc]]_vars
    /\ [][pc = "_get_animal_protein_gram_weight" => AnimalProteinStep]_vars

\* a record whose gram weight an earlier stage found for a line with an
\* animal-protein unit, and a record whose gram weight is the secondary
\* pair's after a miss on the primary pair
C30_Witness ==
    /\ pc = "done"
    /\ \/ /\ gram_weight.by \in {"direct", "single"}
          /\ animal_protein_gram_weight(quantity, unit) # NoGram
       \/ /\ gram_weight.by = "protein"
          /\ animal_protein_gram_weight(quantity, unit) = NoGram
          /\ gram_weight = animal_protein_gram_weight(secondary_quantity, secondary_unit)


====
